---- MODULE Spec2Model ----
(***************************************************************************)
(* Model of the bidirectional sync engine of the google-drive skill        *)
(* (src/google-drive/src/sync.js, class SyncClient) and of the Drive       *)
(* client calls it consumes (src/google-drive/src/backup.js, DriveClient). *)
(*                                                                         *)
(* Paths are sequences of segments: <<"a">> is the file a in the root,     *)
(* <<"d","b">> is the file d/b.  Local modification times are epoch        *)
(* milliseconds (stats.mtimeMs); remote modification times are the         *)
(* store's timestamp strings, kept as <<seconds, milliseconds>> and        *)
(* converted with GetTime as new Date(s).getTime() does.                   *)
(***************************************************************************)
EXTENDS Integers, Sequences, FiniteSets, TLC

\* ------------------------------------------------------------------ bounds
MaxPasses == 2
MaxTicks == 1
MaxLen == 3
MaxUploads == 2
\* the page sizes of the listings, scaled down: of the default listing (100)
\* and of the listing of the scan (1000)
DefaultPageSize == 1
ScanPageSize == 2

\* ------------------------------------------------------- program constants
Tolerance == 1000

\* ------------------------------------------------------------- the universe
PathA == <<"a">>
PathB == << "d", "b" >>
\* the name of the sidecar, and the path of a file of that name in the root
SYNC_STATE_FILE == ".gdrive-sync-state.json"
PathS == <<SYNC_STATE_FILE>>
Paths == {PathA, PathB, PathS}
PathOrder == <<PathS, PathA, PathB>>
Dirs == { <<"d">> }

\* Map.get() of a path that has no entry
Absent == -1
NoRemote == <<>>

TickMs == 2 * Tolerance
InitTimes == {1000, 3000, 5000}
InitStateTimes == {1000}
\* the first call is issued no earlier than any timestamp of the initial world
NowInit == 5 * Tolerance

Directions == {"up", "down", "both"}
Strategies == {"local", "remote", "newer"}

VARIABLES
  localRoot,      \* the local root directory exists
  localFs,        \* path -> mtime in ms, or Absent
  localDirs,      \* local sub-directories that exist
  remoteFs,       \* path -> <<sec, ms>> timestamp, or NoRemote
  remoteFolders,  \* remote sub-folders that exist
  stateFile,      \* the sidecar .gdrive-sync-state.json
  now,            \* wall clock, ms
  ticks,          \* number of clock advances so far
  passes,         \* number of sync() calls started
  pc,             \* position of the running sync() call
  opts,           \* options of the running sync() call
  state,          \* result of loadSyncState
  local,          \* result of scanLocalDirectory (files)
  remote,         \* result of scanDriveFolder (files)
  comparison,     \* result of compareFileSets
  idx,            \* index in the list the current loop iterates
  results,        \* the results object of sync()
  ops,            \* mutating calls issued by the running sync() call,
                  \* as <<call, path>>
  prev,           \* what the previous sync() call did (history)
  io,             \* reads and writes of the state file by the running call,
                  \* and whether one of its scans failed
  ex,             \* one call of shouldExclude: its arguments and its result
  report,         \* what the last call of status() gave
  retry,          \* one execution of withRetry around a client request
  drive,          \* the files and folders of the remote store
  target,         \* the id of the remote folder that is synced
  req,            \* the last call of SyncClient.uploadFile: path and outcome
  log,            \* the client requests that call has issued, in order
  listing,        \* what the last call of scanDriveFolder returned
  overlap         \* two sync() calls that run at the same time

vars == <<localRoot, localFs, localDirs, remoteFs, remoteFolders, stateFile,
          now, ticks, passes, pc, opts, state, local, remote, comparison,
          idx, results, ops, prev, io, ex, report, retry, drive, target, req,
          log, listing, overlap>>

\* the state of the Drive client, which a step of sync() leaves alone
clientVars == <<retry, drive, target, req, log, listing, overlap>>

storeVars == <<drive, target, req, log, listing, overlap>>

\* the state of the sync engine, which a step of the Drive client leaves alone
syncVars == <<localRoot, localFs, localDirs, remoteFs, remoteFolders,
              stateFile, ticks, passes, pc, opts, state, local, remote,
              comparison, idx, results, ops, prev, io, ex, report>>

world == <<localRoot, localFs, localDirs, remoteFs, remoteFolders, stateFile>>

\* ------------------------------------------------------------ pure helpers
\* new Date(isoString).getTime()
GetTime(iso) == iso[1] * 1000 + iso[2]

\* the timestamp string the store reports for a file written at time t
ToISO(t) == << t \div 1000, t % 1000 >>

\* path.dirname of a relative path; <<>> is '.'
Dirname(p) == SubSeq(p, 1, Len(p) - 1)

Max(a, b) == IF a >= b THEN a ELSE b

Abs(x) == IF x >= 0 THEN x ELSE 0 - x

NoRecords == [p \in Paths |-> Absent]

\* String.prototype.startsWith / endsWith / includes on character sequences
StartsWith(s, pre) == Len(pre) <= Len(s) /\ SubSeq(s, 1, Len(pre)) = pre

EndsWith(s, suf) ==
  Len(suf) <= Len(s) /\ SubSeq(s, Len(s) - Len(suf) + 1, Len(s)) = suf

Includes(s, sub) ==
  \E i \in 0..(Len(s) - Len(sub)) : SubSeq(s, i + 1, i + Len(sub)) = sub

Slash == <<"/">>

\* one iteration of the loop of shouldExclude (sync.js)
MatchesPattern(path, pattern) ==
  IF StartsWith(pattern, <<"*">>)
  THEN EndsWith(path, SubSeq(pattern, 2, Len(pattern)))
  ELSE IF EndsWith(pattern, <<"*">>)
  THEN StartsWith(path, SubSeq(pattern, 1, Len(pattern) - 1))
  ELSE \/ path = pattern
       \/ Includes(path, Slash \o pattern \o Slash)
       \/ StartsWith(path, pattern \o Slash)
       \/ EndsWith(path, Slash \o pattern)

\* shouldExclude(path, patterns) of sync.js
shouldExclude(path, patterns) ==
  \E i \in 1..Len(patterns) : MatchesPattern(path, patterns[i])

\* loadSyncState: a missing or unparseable file gives { files: [] }; a file
\* that parses is returned as parsed, also when its content is the JSON
\* value null (kind "null"), which has no properties
loadSyncState(f) ==
  IF f.kind = "ok"
  THEN [isNull |-> FALSE, lastSync |-> f.lastSync, files |-> f.files]
  ELSE [isNull |-> f.kind = "null", lastSync |-> <<>>, files |-> NoRecords]

\* the relative path string of a path: its segments joined by '/'
RECURSIVE Str(_)
Str(p) == IF Len(p) <= 1 THEN p
          ELSE Str(SubSeq(p, 1, Len(p) - 1)) \o Slash \o <<p[Len(p)]>>

\* the recursive scans test every entry on the way down to a file, the
\* directories first, and do not descend into an excluded directory
Skipped(p, exclude) ==
  \E k \in 1..Len(p) : shouldExclude(Str(SubSeq(p, 1, k)), exclude)

\* readdirSync of the local tree: the files of the tree and, where it has
\* been written, the sidecar, which lies in the root of the tree
Entries(fs, sidecar) ==
  [p \in Paths |->
     IF p # PathS THEN fs[p]
     ELSE IF sidecar.kind = "missing" THEN Absent
     ELSE IF sidecar.kind = "ok" THEN GetTime(sidecar.lastSync)
     ELSE 0]

\* scanLocalDirectory / scanDriveFolder: the files found
scanLocalDirectory(entries, exclude) ==
  [p \in Paths |->
     IF p[Len(p)] = SYNC_STATE_FILE \/ Skipped(p, exclude) THEN Absent
     ELSE entries[p]]

\* scanDriveFolder without the exclusion test
scanDriveFolderUnfiltered(fs, exclude) == [p \in Paths |-> fs[p]]

scanDriveFolder(fs, exclude) ==
  [p \in Paths |-> IF Skipped(p, exclude) THEN NoRemote ELSE fs[p]]

\* LocalLoopClass with the state-branch test written >= (a time exactly
\* 1000 ms past the state time counts as changed)
LocalLoopClassGe(loc, rem, st, p) ==
  IF rem[p] = NoRemote
  THEN IF st.files[p] # Absent THEN "onlyLocal" ELSE "toUpload"
  ELSE LET localMod == loc[p]
           remoteMod == GetTime(rem[p])
       IN IF st.files[p] # Absent
          THEN LET stateMod == st.files[p]
                   localChanged == localMod >= stateMod + Tolerance
                   remoteChanged == remoteMod >= stateMod + Tolerance
               IN IF localChanged /\ remoteChanged THEN "conflicts"
                  ELSE IF localChanged THEN "toUpload"
                  ELSE IF remoteChanged THEN "toDownload"
                  ELSE "inSync"
          ELSE IF Abs(localMod - remoteMod) < Tolerance THEN "inSync"
               ELSE IF localMod > remoteMod THEN "toUpload"
               ELSE "toDownload"

\* LocalLoopClass with the no-state test written <= (a difference of exactly
\* 1000 ms counts as equal)
LocalLoopClassLe(loc, rem, st, p) ==
  IF rem[p] = NoRemote
  THEN IF st.files[p] # Absent THEN "onlyLocal" ELSE "toUpload"
  ELSE LET localMod == loc[p]
           remoteMod == GetTime(rem[p])
       IN IF st.files[p] # Absent
          THEN LET stateMod == st.files[p]
                   localChanged == localMod > stateMod + Tolerance
                   remoteChanged == remoteMod > stateMod + Tolerance
               IN IF localChanged /\ remoteChanged THEN "conflicts"
                  ELSE IF localChanged THEN "toUpload"
                  ELSE IF remoteChanged THEN "toDownload"
                  ELSE "inSync"
          ELSE IF Abs(localMod - remoteMod) <= Tolerance THEN "inSync"
               ELSE IF localMod > remoteMod THEN "toUpload"
               ELSE "toDownload"

\* first loop of compareFileSets: one locally present path
LocalLoopClass(loc, rem, st, p) ==
  IF rem[p] = NoRemote
  THEN IF st.files[p] # Absent THEN "onlyLocal" ELSE "toUpload"
  ELSE LET localMod == loc[p]
           remoteMod == GetTime(rem[p])
       IN IF st.files[p] # Absent
          THEN LET stateMod == st.files[p]
                   localChanged == localMod > stateMod + Tolerance
                   remoteChanged == remoteMod > stateMod + Tolerance
               IN IF localChanged /\ remoteChanged THEN "conflicts"
                  ELSE IF localChanged THEN "toUpload"
                  ELSE IF remoteChanged THEN "toDownload"
                  ELSE "inSync"
          ELSE IF Abs(localMod - remoteMod) < Tolerance THEN "inSync"
               ELSE IF localMod > remoteMod THEN "toUpload"
               ELSE "toDownload"

\* RemoteLoopClass with the two outcomes exchanged
RemoteLoopClassSwapped(loc, rem, st, p) ==
  IF loc[p] = Absent
  THEN IF st.files[p] # Absent THEN "toDownload" ELSE "onlyRemote"
  ELSE "skip"

\* RemoteLoopClass that does not pass over a path the first loop has handled
RemoteLoopClassNoSkip(loc, rem, st, p) ==
  IF loc[p] = Absent
  THEN IF st.files[p] # Absent THEN "onlyRemote" ELSE "toDownload"
  ELSE "toDownload"

\* second loop of compareFileSets: one remotely present path
RemoteLoopClass(loc, rem, st, p) ==
  IF loc[p] = Absent
  THEN IF st.files[p] # Absent THEN "onlyRemote" ELSE "toDownload"
  ELSE "skip"

compareFileSets(loc, rem, st) ==
  LET localOrder == SelectSeq(PathOrder, LAMBDA p : loc[p] # Absent)
      remoteOrder == SelectSeq(PathOrder, LAMBDA p : rem[p] # NoRemote)
      L(c) == SelectSeq(localOrder, LAMBDA p : LocalLoopClass(loc, rem, st, p) = c)
      R(c) == SelectSeq(remoteOrder, LAMBDA p : RemoteLoopClass(loc, rem, st, p) = c)
  IN [toUpload   |-> L("toUpload"),
      toDownload |-> L("toDownload") \o R("toDownload"),
      onlyLocal  |-> L("onlyLocal"),
      onlyRemote |-> R("onlyRemote"),
      conflicts  |-> L("conflicts"),
      inSync     |-> L("inSync")]

\* buildSyncState that records the older of the two times of a path present
\* on both sides
buildSyncStateOldest(loc, rem) ==
  [p \in Paths |->
     IF loc[p] = Absent /\ rem[p] = NoRemote THEN Absent
     ELSE IF loc[p] # Absent /\ rem[p] # NoRemote
          THEN (IF loc[p] <= GetTime(rem[p]) THEN loc[p] ELSE GetTime(rem[p]))
          ELSE Max(IF loc[p] # Absent THEN loc[p] ELSE 0,
                   IF rem[p] # NoRemote THEN GetTime(rem[p]) ELSE 0)]

\* buildSyncState: one record per path of either scan
buildSyncState(loc, rem) ==
  [p \in Paths |->
     IF loc[p] = Absent /\ rem[p] = NoRemote THEN Absent
     ELSE Max(IF loc[p] # Absent THEN loc[p] ELSE 0,
              IF rem[p] # NoRemote THEN GetTime(rem[p]) ELSE 0)]


\* ----------------------------------------------------------- the sync() call
DefaultOpts == [direction |-> "both", deleteOrphans |-> FALSE, dryRun |-> FALSE,
                conflictResolution |-> "newer", exclude |-> <<>>]

NoIo == [loads |-> 0, saves |-> 0, scanFailed |-> FALSE]

EmptyComparison == [toUpload |-> <<>>, toDownload |-> <<>>, onlyLocal |-> <<>>,
                    onlyRemote |-> <<>>, conflicts |-> <<>>, inSync |-> <<>>]

EmptyResults ==
  [uploaded |-> <<>>, downloaded |-> <<>>,
   deletedLocal |-> <<>>, deletedRemote |-> <<>>,
   conflicts |-> <<>>, errors |-> <<>>,
   stats |-> [uploadedFiles |-> 0, downloadedFiles |-> 0, deletedLocal |-> 0,
              deletedRemote |-> 0, conflicts |-> 0, errors |-> 0]]

NoPrev == [ran |-> FALSE, pc |-> "idle", opts |-> DefaultOpts,
           comparison |-> EmptyComparison, results |-> EmptyResults]

PhaseOrder == <<"upload", "deleteRemote", "download", "deleteLocal", "conflict">>

PhaseIndex(ph) == CHOOSE k \in 1..Len(PhaseOrder) : PhaseOrder[k] = ph

\* PhaseItems with the conflict loop placed under the direction test
PhaseItemsConflictGated(cmp, o, ph) ==
  CASE ph = "upload" ->
         IF o.direction \in {"up", "both"} THEN cmp.toUpload ELSE <<>>
    [] ph = "deleteRemote" ->
         IF o.direction \in {"up", "both"} /\ o.deleteOrphans
         THEN cmp.onlyRemote ELSE <<>>
    [] ph = "download" ->
         IF o.direction \in {"down", "both"} THEN cmp.toDownload ELSE <<>>
    [] ph = "deleteLocal" ->
         IF o.direction \in {"down", "both"} /\ o.deleteOrphans
         THEN cmp.onlyLocal ELSE <<>>
    [] ph = "conflict" ->
         IF o.direction = "both" THEN cmp.conflicts ELSE <<>>

\* PhaseItems with the two orphan loops under each other's direction test
PhaseItemsSwappedDirs(cmp, o, ph) ==
  CASE ph = "upload" ->
         IF o.direction \in {"up", "both"} THEN cmp.toUpload ELSE <<>>
    [] ph = "deleteRemote" ->
         IF o.direction \in {"down", "both"} /\ o.deleteOrphans
         THEN cmp.onlyRemote ELSE <<>>
    [] ph = "download" ->
         IF o.direction \in {"down", "both"} THEN cmp.toDownload ELSE <<>>
    [] ph = "deleteLocal" ->
         IF o.direction \in {"up", "both"} /\ o.deleteOrphans
         THEN cmp.onlyLocal ELSE <<>>
    [] ph = "conflict" -> cmp.conflicts

\* PhaseItems with the two orphan loops not guarded by the delete flag
PhaseItemsNoFlag(cmp, o, ph) ==
  CASE ph = "upload" ->
         IF o.direction \in {"up", "both"} THEN cmp.toUpload ELSE <<>>
    [] ph = "deleteRemote" ->
         IF o.direction \in {"up", "both"} THEN cmp.onlyRemote ELSE <<>>
    [] ph = "download" ->
         IF o.direction \in {"down", "both"} THEN cmp.toDownload ELSE <<>>
    [] ph = "deleteLocal" ->
         IF o.direction \in {"down", "both"} THEN cmp.onlyLocal ELSE <<>>
    [] ph = "conflict" -> cmp.conflicts

\* the list a loop of sync() iterates; empty when its guard is false
PhaseItems(cmp, o, ph) ==
  CASE ph = "upload" ->
         IF o.direction \in {"up", "both"} THEN cmp.toUpload ELSE <<>>
    [] ph = "deleteRemote" ->
         IF o.direction \in {"up", "both"} /\ o.deleteOrphans
         THEN cmp.onlyRemote ELSE <<>>
    [] ph = "download" ->
         IF o.direction \in {"down", "both"} THEN cmp.toDownload ELSE <<>>
    [] ph = "deleteLocal" ->
         IF o.direction \in {"down", "both"} /\ o.deleteOrphans
         THEN cmp.onlyLocal ELSE <<>>
    [] ph = "conflict" -> cmp.conflicts

RECURSIVE FirstPhase(_, _, _)
FirstPhase(cmp, o, k) ==
  IF k > Len(PhaseOrder) THEN "save"
  ELSE IF Len(PhaseItems(cmp, o, PhaseOrder[k])) > 0 THEN PhaseOrder[k]
  ELSE FirstPhase(cmp, o, k + 1)

\* control moves to the next element of the current loop, or to the next
\* loop that has elements, or to the state save
Advance ==
  IF idx < Len(PhaseItems(comparison, opts, pc))
  THEN pc' = pc /\ idx' = idx + 1
  ELSE pc' = FirstPhase(comparison, opts, PhaseIndex(pc) + 1) /\ idx' = 1

Outcomes == {"ok", "failEarly", "failLate"}

DirSet(p) == IF Dirname(p) = <<>> THEN {} ELSE {Dirname(p)}

\* SyncClient.uploadFile with ensureDrivePath, and the client calls it makes.
\* failEarly: a call fails before anything was changed;
\* failLate: the folders were created, then the listing or the transfer fails.
uploadFile(p, outcome) ==
  LET mk == IF DirSet(p) \subseteq remoteFolders THEN {}
            ELSE { <<"createFolder", Dirname(p)>> }
      tr == IF remoteFs[p] # NoRemote THEN { <<"updateFile", p>> }
            ELSE { <<"uploadFile", p>> }
  IN /\ remoteFolders' = IF outcome = "failEarly" THEN remoteFolders
                         ELSE remoteFolders \cup DirSet(p)
     /\ remoteFs' = IF outcome = "ok"
                    THEN [remoteFs EXCEPT ![p] = ToISO(now)] ELSE remoteFs
     /\ ops' = ops \cup (IF outcome = "failEarly" THEN {} ELSE mk)
                   \cup (IF outcome = "ok" THEN tr ELSE {})
     /\ UNCHANGED <<localRoot, localFs, localDirs, stateFile>>

\* downloadFile that creates the directories and writes no file
downloadFileNoWrite(p, outcome) ==
  LET mk == IF DirSet(p) \subseteq localDirs THEN {}
            ELSE { <<"mkdir", Dirname(p)>> }
  IN /\ localDirs' = IF outcome = "failEarly" THEN localDirs
                     ELSE localDirs \cup DirSet(p)
     /\ localFs' = localFs
     /\ ops' = ops \cup (IF outcome = "failEarly" THEN {} ELSE mk)
     /\ UNCHANGED <<localRoot, remoteFs, remoteFolders, stateFile>>

\* what a remote file may hold: writeFileSync(fullPath, result.data) of the
\* file at PathS puts it where the sidecar is
RemoteContents ==
  { [kind |-> "corrupt"], [kind |-> "null"],
    [kind |-> "ok", lastSync |-> ToISO(NowInit), files |-> NoRecords],
    [kind |-> "ok", lastSync |-> ToISO(NowInit),
     files |-> [NoRecords EXCEPT ![PathA] = NowInit]] }

\* SyncClient.downloadFile
downloadFile(p, outcome) ==
  LET mk == IF DirSet(p) \subseteq localDirs THEN {}
            ELSE { <<"mkdir", Dirname(p)>> }
  IN /\ localDirs' = IF outcome = "failEarly" THEN localDirs
                     ELSE localDirs \cup DirSet(p)
     /\ IF p = PathS /\ outcome = "ok"
        THEN /\ localFs' = localFs
             /\ stateFile' \in RemoteContents
        ELSE /\ localFs' = IF outcome = "ok"
                           THEN [localFs EXCEPT ![p] = now] ELSE localFs
             /\ stateFile' = stateFile
     /\ ops' = ops \cup (IF outcome = "failEarly" THEN {} ELSE mk)
                   \cup (IF outcome = "ok" THEN { <<"writeFile", p>> } ELSE {})
     /\ UNCHANGED <<localRoot, remoteFs, remoteFolders>>

\* PushError that counts the failure without recording its entry
PushErrorLost(r, action, p) == [r EXCEPT !.stats.errors = @ + 1]

\* PushError that records the entry without counting it
PushErrorUncounted(r, action, p) ==
  [r EXCEPT !.errors = Append(@, [action |-> action, file |-> p])]

\* the catch block of a per-file action
PushError(r, action, p) ==
  [r EXCEPT !.errors = Append(@, [action |-> action, file |-> p]),
            !.stats.errors = @ + 1]

passVars == <<opts, state, local, remote, comparison>>

\* sync(): validation of the local path and loadSyncState
Begin(direction, deleteOrphans, dryRun, conflictResolution, exclude) ==
  /\ pc \in {"idle", "done"}
  /\ passes < MaxPasses
  /\ passes' = passes + 1
  /\ prev' = [ran |-> pc # "idle", pc |-> pc, opts |-> opts,
              comparison |-> comparison, results |-> results]
  /\ opts' = [direction |-> direction, deleteOrphans |-> deleteOrphans,
              dryRun |-> dryRun, conflictResolution |-> conflictResolution,
              exclude |-> exclude]
  /\ results' = EmptyResults
  /\ comparison' = EmptyComparison
  /\ local' = [p \in Paths |-> Absent]
  /\ remote' = [p \in Paths |-> NoRemote]
  /\ idx' = 1
  /\ IF ~localRoot /\ direction = "up"
     THEN /\ pc' = "threw"
          /\ state' = loadSyncState([kind |-> "missing"])
          /\ ops' = {}
          /\ io' = NoIo
          /\ localRoot' = localRoot
     ELSE /\ pc' = "scan"
          /\ localRoot' = TRUE
          /\ ops' = IF localRoot THEN {} ELSE { <<"mkdir", <<>> >> }
          /\ io' = [NoIo EXCEPT !.loads = 1]
          /\ state' = loadSyncState(stateFile)
  /\ UNCHANGED <<localFs, localDirs, remoteFs, remoteFolders, stateFile,
                 now, ticks, ex, report, clientVars>>

\* sync(): scanLocalDirectory; an unreadable directory makes it throw
ScanLocal ==
  /\ pc = "scan"
  /\ \E readable \in BOOLEAN :
        IF readable
        THEN /\ local' = scanLocalDirectory(Entries(localFs, stateFile), opts.exclude)
             /\ pc' = "scanRemote"
             /\ io' = io
        ELSE /\ local' = local
             /\ pc' = "threw"
             /\ io' = [io EXCEPT !.scanFailed = TRUE]
  /\ UNCHANGED <<world, now, ticks, passes, opts, state, remote, comparison,
                 idx, results, ops, prev, ex, report, clientVars>>

\* ScanRemote in which a failed listing counts as an empty folder
ScanRemoteLenient ==
  /\ pc = "scanRemote"
  /\ \E listed \in BOOLEAN :
        IF listed
        THEN /\ remote' = scanDriveFolder(remoteFs, opts.exclude)
             /\ pc' = "compare"
             /\ io' = io
        ELSE /\ remote' = remote
             /\ pc' = "compare"
             /\ io' = [io EXCEPT !.scanFailed = TRUE]
  /\ UNCHANGED <<world, now, ticks, passes, opts, state, local, comparison,
                 idx, results, ops, prev, ex, report, clientVars>>

\* sync(): scanDriveFolder; a failed listing makes it throw
ScanRemote ==
  /\ pc = "scanRemote"
  /\ \E listed \in BOOLEAN :
        IF listed
        THEN /\ remote' = scanDriveFolder(remoteFs, opts.exclude)
             /\ pc' = "compare"
             /\ io' = io
        ELSE /\ remote' = remote
             /\ pc' = "threw"
             /\ io' = [io EXCEPT !.scanFailed = TRUE]
  /\ UNCHANGED <<world, now, ticks, passes, opts, state, local, comparison,
                 idx, results, ops, prev, ex, report, clientVars>>

\* sync(): compareFileSets; reading state.files of null throws a TypeError
Compare ==
  /\ pc = "compare"
  /\ IF state.isNull
     THEN /\ comparison' = comparison
          /\ pc' = "threw"
     ELSE /\ comparison' = compareFileSets(local, remote, state)
          /\ pc' = FirstPhase(comparison', opts, 1)
  /\ idx' = 1
  /\ UNCHANGED <<world, now, ticks, passes, opts, state, local, remote,
                 results, ops, prev, io, ex, report, clientVars>>

\* UploadStep in which a dry run does not list the file as uploaded
UploadStepDryUnlisted ==
  /\ pc = "upload"
  /\ LET p == comparison.toUpload[idx]
     IN \E outcome \in Outcomes :
          /\ IF opts.dryRun
             THEN outcome = "ok" /\ UNCHANGED <<world, ops>>
             ELSE uploadFile(p, outcome)
          /\ results' = IF outcome = "ok"
                        THEN IF opts.dryRun THEN results
                             ELSE [results EXCEPT !.uploaded = Append(@, p),
                                                  !.stats.uploadedFiles = @ + 1]
                        ELSE PushError(results, "upload", p)
  /\ Advance
  /\ UNCHANGED <<now, ticks, passes, passVars, prev, io, ex, report, clientVars>>

\* sync(): one iteration of the loop over comparison.toUpload
UploadStep ==
  /\ pc = "upload"
  /\ LET p == comparison.toUpload[idx]
     IN \E outcome \in Outcomes :
          /\ IF opts.dryRun
             THEN outcome = "ok" /\ UNCHANGED <<world, ops>>
             ELSE uploadFile(p, outcome)
          /\ results' = IF outcome = "ok"
                        THEN [results EXCEPT !.uploaded = Append(@, p),
                                             !.stats.uploadedFiles = @ + 1]
                        ELSE PushError(results, "upload", p)
  /\ Advance
  /\ UNCHANGED <<now, ticks, passes, passVars, prev, io, ex, report, clientVars>>

\* sync(): one iteration of the loop over comparison.onlyRemote
DeleteRemoteStep ==
  /\ pc = "deleteRemote"
  /\ LET p == comparison.onlyRemote[idx]
     IN \E outcome \in {"ok", "failEarly"} :
          /\ IF opts.dryRun
             THEN outcome = "ok" /\ UNCHANGED <<world, ops>>
             ELSE /\ remoteFs' = IF outcome = "ok"
                                 THEN [remoteFs EXCEPT ![p] = NoRemote]
                                 ELSE remoteFs
                  /\ ops' = ops \cup (IF outcome = "ok" THEN { <<"deleteFile", p>> } ELSE {})
                  /\ UNCHANGED <<localRoot, localFs, localDirs, remoteFolders,
                                 stateFile>>
          /\ results' = IF outcome = "ok"
                        THEN [results EXCEPT !.deletedRemote = Append(@, p),
                                             !.stats.deletedRemote = @ + 1]
                        ELSE PushError(results, "delete-remote", p)
  /\ Advance
  /\ UNCHANGED <<now, ticks, passes, passVars, prev, io, ex, report, clientVars>>

\* sync(): one iteration of the loop over comparison.toDownload
DownloadStep ==
  /\ pc = "download"
  /\ LET p == comparison.toDownload[idx]
     IN \E outcome \in Outcomes :
          /\ IF opts.dryRun
             THEN outcome = "ok" /\ UNCHANGED <<world, ops>>
             ELSE downloadFile(p, outcome)
          /\ results' = IF outcome = "ok"
                        THEN [results EXCEPT !.downloaded = Append(@, p),
                                             !.stats.downloadedFiles = @ + 1]
                        ELSE PushError(results, "download", p)
  /\ Advance
  /\ UNCHANGED <<now, ticks, passes, passVars, prev, io, ex, report, clientVars>>

\* sync(): one iteration of the loop over comparison.onlyLocal
DeleteLocalStep ==
  /\ pc = "deleteLocal"
  /\ LET p == comparison.onlyLocal[idx]
     IN \E outcome \in {"ok", "failEarly"} :
          /\ IF opts.dryRun
             THEN outcome = "ok" /\ UNCHANGED <<world, ops>>
             ELSE /\ localFs' = IF outcome = "ok"
                                THEN [localFs EXCEPT ![p] = Absent]
                                ELSE localFs
                  /\ ops' = ops \cup (IF outcome = "ok" THEN { <<"unlink", p>> } ELSE {})
                  /\ UNCHANGED <<localRoot, localDirs, remoteFs, remoteFolders,
                                 stateFile>>
          /\ results' = IF outcome = "ok"
                        THEN [results EXCEPT !.deletedLocal = Append(@, p),
                                             !.stats.deletedLocal = @ + 1]
                        ELSE PushError(results, "delete-local", p)
  /\ Advance
  /\ UNCHANGED <<now, ticks, passes, passVars, prev, io, ex, report, clientVars>>

\* Resolution with the newer test reversed (the older side wins)
ResolutionOlder(strategy, localMod, remoteMod) ==
  IF strategy = "local" THEN "upload-local"
  ELSE IF strategy = "remote" THEN "download-remote"
  ELSE IF localMod < remoteMod THEN "upload-local (newer)"
  ELSE "download-remote (newer)"

\* Resolution with the newer test written >= (a tie goes to the local side)
ResolutionTieLocal(strategy, localMod, remoteMod) ==
  IF strategy = "local" THEN "upload-local"
  ELSE IF strategy = "remote" THEN "download-remote"
  ELSE IF localMod >= remoteMod THEN "upload-local (newer)"
  ELSE "download-remote (newer)"

\* resolveConflict: the resolution chosen for one conflict
Resolution(strategy, localMod, remoteMod) ==
  IF strategy = "local" THEN "upload-local"
  ELSE IF strategy = "remote" THEN "download-remote"
  ELSE IF localMod > remoteMod THEN "upload-local (newer)"
  ELSE "download-remote (newer)"

IsUpload(resolution) == resolution \in {"upload-local", "upload-local (newer)"}

\* sync(): one iteration of the loop over comparison.conflicts
ConflictStep ==
  /\ pc = "conflict"
  /\ LET p == comparison.conflicts[idx]
         resolution == Resolution(opts.conflictResolution, local[p],
                                  GetTime(remote[p]))
     IN \E outcome \in Outcomes :
          /\ IF opts.dryRun
             THEN outcome = "ok" /\ UNCHANGED <<world, ops>>
             ELSE IF IsUpload(resolution)
                  THEN uploadFile(p, outcome)
                  ELSE downloadFile(p, outcome)
          /\ results' = IF outcome = "ok"
                        THEN [results EXCEPT
                                !.conflicts = Append(@, [path |-> p,
                                                 resolution |-> resolution]),
                                !.stats.conflicts = @ + 1]
                        ELSE PushError(results, "resolve-conflict", p)
  /\ Advance
  /\ UNCHANGED <<now, ticks, passes, passVars, prev, io, ex, report, clientVars>>

\* SaveState without the dry-run test
SaveStateAlways ==
  /\ pc = "save"
  /\ pc' = "done"
  /\ stateFile' = [kind |-> "ok", lastSync |-> ToISO(now),
                   files |-> buildSyncState(local, remote)]
  /\ ops' = ops \cup { <<"saveSyncState", <<>> >> }
  /\ io' = [io EXCEPT !.saves = @ + 1]
  /\ UNCHANGED <<localRoot, localFs, localDirs, remoteFs, remoteFolders,
                 now, ticks, passes, passVars, idx, results, prev, ex, report, clientVars>>

\* sync(): buildSyncState and saveSyncState, then return results
SaveState ==
  /\ pc = "save"
  /\ pc' = "done"
  /\ IF opts.dryRun
     THEN UNCHANGED <<stateFile, ops, io>>
     ELSE /\ stateFile' = [kind |-> "ok", lastSync |-> ToISO(now),
                           files |-> buildSyncState(local, remote)]
          /\ ops' = ops \cup { <<"saveSyncState", <<>> >> }
          /\ io' = [io EXCEPT !.saves = @ + 1]
  /\ UNCHANGED <<localRoot, localFs, localDirs, remoteFs, remoteFolders,
                 now, ticks, passes, passVars, idx, results, prev, ex, report, clientVars>>

NoReport == [kind |-> "none"]

\* StatusCall that validates the local path as sync() does
StatusCallMakingRoot ==
  /\ pc \in {"idle", "done"}
  /\ localRoot' = TRUE
  /\ \E readable \in BOOLEAN, listed \in BOOLEAN :
       LET st == loadSyncState(stateFile)
           loc == scanLocalDirectory(Entries(localFs, stateFile), opts.exclude)
           rem == scanDriveFolder(remoteFs, opts.exclude)
       IN report' =
            IF ~readable \/ ~listed \/ st.isNull THEN [kind |-> "threw"]
            ELSE [kind |-> "ok",
                  localFiles |-> Cardinality({p \in Paths : loc[p] # Absent}),
                  remoteFiles |-> Cardinality({p \in Paths : rem[p] # NoRemote}),
                  changes |-> compareFileSets(loc, rem, st),
                  lastSync |-> st.lastSync]
  /\ UNCHANGED <<localFs, localDirs, remoteFs, remoteFolders, stateFile,
                 now, ticks, passes, pc, passVars, idx, results, ops, prev,
                 io, ex, clientVars>>

\* status(): the whole call.  A missing local path gives an error result;
\* otherwise the state is loaded, both trees are scanned and compared, and
\* the call throws when a scan fails or the state is null.
StatusCall ==
  /\ pc \in {"idle", "done"}
  /\ IF ~localRoot
     THEN report' = [kind |-> "error"]
     ELSE \E readable \in BOOLEAN, listed \in BOOLEAN :
            LET st == loadSyncState(stateFile)
                loc == scanLocalDirectory(Entries(localFs, stateFile), opts.exclude)
                rem == scanDriveFolder(remoteFs, opts.exclude)
            IN report' =
                 IF ~readable \/ ~listed \/ st.isNull THEN [kind |-> "threw"]
                 ELSE [kind |-> "ok",
                       localFiles |-> Cardinality({p \in Paths : loc[p] # Absent}),
                       remoteFiles |-> Cardinality({p \in Paths : rem[p] # NoRemote}),
                       changes |-> compareFileSets(loc, rem, st),
                       lastSync |-> st.lastSync]
  /\ UNCHANGED <<world, now, ticks, passes, pc, passVars, idx, results, ops,
                 prev, io, ex, clientVars>>

\* time passes between two calls of sync()
Tick ==
  /\ pc \in {"idle", "done", "threw"}
  /\ ticks < MaxTicks
  /\ ticks' = ticks + 1
  /\ now' = now + TickMs
  /\ UNCHANGED <<world, passes, pc, passVars, idx, results, ops, prev, io, ex, report, clientVars>>

\* The command is issued with any options the first time; when it is repeated
\* the options are kept, except that the direction is chosen anew, or that a
\* dry run is followed by the real run of the same command.  The --exclude
\* list is the one the initial state holds.
Start ==
  \E direction \in Directions, deleteOrphans \in BOOLEAN, dryRun \in BOOLEAN,
     conflictResolution \in Strategies :
        /\ passes > 0 => /\ deleteOrphans = opts.deleteOrphans
                         /\ \/ dryRun = opts.dryRun
                            \/ /\ opts.dryRun /\ ~dryRun
                               /\ direction = opts.direction
                         /\ conflictResolution = opts.conflictResolution
        /\ Begin(direction, deleteOrphans, dryRun, conflictResolution,
                 opts.exclude)

\* ----------------------------------------------------- the Drive client
\* withRetry(fn, retries = MAX_RETRIES) of the Drive client
MAX_RETRIES == 3
INITIAL_BACKOFF_MS == 1000

\* the client requests that are issued through withRetry
WrappedCalls == {"listFiles", "uploadFile", "updateFile", "deleteFile",
                 "downloadFile", "createFolder"}

\* what one invocation of fn gives: 200 is a response, anything else is the
\* status of the error it throws
Responses == {200, 403, 429, 404, 500}

\* IsRateLimit that also takes a server error for a rate limit
IsRateLimitOrServer(status) == status \in {403, 429, 500}

\* status === 403 || status === 429
IsRateLimit(status) == status = 403 \/ status = 429

\* INITIAL_BACKOFF_MS * Math.pow(2, attempt)
Backoff(attempt) == INITIAL_BACKOFF_MS * 2^attempt

NoRetry == [fn |-> "", attempt |-> 0, calls |-> 0, errors |-> <<>>,
            waits |-> <<>>, pc |-> "idle", thrown |-> 0]

\* one iteration of the loop of withRetry up to its sleep: fn is invoked and
\* returns, or throws an error that is rethrown or leads to a sleep
RetryCall ==
  /\ retry.pc = "call"
  /\ retry.attempt <= MAX_RETRIES
  /\ \E r \in Responses :
        retry' =
          IF r = 200
          THEN [retry EXCEPT !.calls = @ + 1, !.pc = "returned"]
          ELSE IF IsRateLimit(r) /\ retry.attempt < MAX_RETRIES
          THEN [retry EXCEPT !.calls = @ + 1, !.errors = Append(@, r),
                             !.pc = "sleep"]
          ELSE [retry EXCEPT !.calls = @ + 1, !.errors = Append(@, r),
                             !.pc = "threw", !.thrown = r]
  /\ UNCHANGED <<syncVars, now, storeVars>>

\* await sleep(backoffMs); continue
RetrySleep ==
  /\ retry.pc = "sleep"
  /\ now' = now + Backoff(retry.attempt)
  /\ retry' = [retry EXCEPT !.waits = Append(@, Backoff(retry.attempt)),
                            !.attempt = @ + 1, !.pc = "call"]
  /\ UNCHANGED <<syncVars, storeVars>>

NextRetry == RetryCall \/ RetrySleep

\* the id that the alias 'root' stands for
Root == 0

\* files.list: the first page of the entries that match the query.  The
\* parent is part of the query unless the folder is 'root'; name is a
\* `contains` test; mimeType, when given, is the folder type.  Which entries
\* the first page holds is for the store to decide.
listFiles(d, folderId, foldersOnly, name, pageSize) ==
  LET matching == { e \in d : /\ folderId # Root => e.parent = folderId
                              /\ foldersOnly => e.folder
                              /\ name # <<>> => Includes(e.name, name) }
  IN IF Cardinality(matching) <= pageSize THEN { matching }
     ELSE { pg \in SUBSET matching : Cardinality(pg) = pageSize }

\* the id the store gives to a new entry
NewId(d) ==
  IF d = {} THEN 1
  ELSE 1 + (CHOOSE m \in { e.id : e \in d } : \A e \in d : e.id <= m)

\* a request of the client: the call, the folder and the name it was given
\* (mimeType is "folder" where the listing asks for folders), the id it was
\* given or has returned, and whether it returned
Request(call, folderId, mimeType, name, id, ok) ==
  [call |-> call, folderId |-> folderId, mimeType |-> mimeType, name |-> name,
   id |-> id, ok |-> ok]

\* ensureDrivePath(rootId, path): every way the loop over the parts can go,
\* as the store, the requests issued, the id reached and whether it returned
RECURSIVE ensureDrivePath(_, _, _, _)
ensureDrivePath(d, lg, currentId, parts) ==
  IF parts = <<>>
  THEN { [drive |-> d, log |-> lg, id |-> currentId, ok |-> TRUE] }
  ELSE
    LET part == Head(parts)
        listed == Append(lg, Request("listFiles", currentId, "folder", part, 0, TRUE))
        notListed == Append(lg, Request("listFiles", currentId, "folder", part, 0, FALSE))
        id == NewId(d)
        created == Append(listed, Request("createFolder", currentId, "folder", part, id, TRUE))
        notCreated == Append(listed, Request("createFolder", currentId, "folder", part, 0, FALSE))
        folder == [id |-> id, name |-> part, parent |-> currentId, folder |-> TRUE]
    IN { [drive |-> d, log |-> notListed, id |-> currentId, ok |-> FALSE] } \cup
       UNION { LET hits == { e \in page : e.name = part }
               IN IF hits # {}
                  THEN UNION { ensureDrivePath(d, listed, e.id, Tail(parts)) :
                                 e \in hits }
                  ELSE { [drive |-> d, log |-> notCreated, id |-> currentId,
                          ok |-> FALSE] } \cup
                       ensureDrivePath(d \cup {folder}, created, id, Tail(parts))
               : page \in listFiles(d, currentId, TRUE, part, DefaultPageSize) }

\* SyncClient.uploadFile(localBasePath, fileInfo, driveFolderId) for the
\* relative path p: every way the call can go
UploadOutcomes(d, driveFolderId, p) ==
  LET dirParts == [i \in 1..(Len(p) - 1) |-> <<p[i]>>]
      name == <<p[Len(p)]>>
      ensured == IF dirParts = <<>>
                 THEN { [drive |-> d, log |-> <<>>, id |-> driveFolderId,
                         ok |-> TRUE] }
                 ELSE ensureDrivePath(d, <<>>, driveFolderId, dirParts)
      File(o) ==
        LET parentId == o.id
            listed == Append(o.log, Request("listFiles", parentId, "", name, 0, TRUE))
            notListed == Append(o.log, Request("listFiles", parentId, "", name, 0, FALSE))
            id == NewId(o.drive)
            file == [id |-> id, name |-> name, parent |-> parentId,
                     folder |-> FALSE]
        IN { [drive |-> o.drive, log |-> notListed, ok |-> FALSE] } \cup
           UNION { LET hits == { e \in page : e.name = name }
                   IN IF hits # {}
                      THEN { [drive |-> o.drive, ok |-> k,
                              log |-> Append(listed, Request("updateFile",
                                          parentId, "", name, e.id, k))] :
                               e \in hits, k \in BOOLEAN }
                      ELSE { [drive |-> o.drive, ok |-> FALSE,
                              log |-> Append(listed, Request("uploadFile",
                                          parentId, "", name, 0, FALSE))],
                             [drive |-> o.drive \cup {file}, ok |-> TRUE,
                              log |-> Append(listed, Request("uploadFile",
                                          parentId, "", name, id, TRUE))] }
                   : page \in listFiles(o.drive, parentId, FALSE, name,
                                        DefaultPageSize) }
  IN UNION { IF o.ok THEN File(o)
             ELSE { [drive |-> o.drive, log |-> o.log, ok |-> FALSE] } :
             o \in ensured }

\* the files a run uploads: two of them lie in the same folder
PathC == << "d", "c" >>
UploadPaths == {PathA, PathB, PathC}

NoReq == [path |-> <<>>, ok |-> FALSE, n |-> 0, calls |-> <<>>]

\* one call of SyncClient.uploadFile in a run; calls keeps the requests of
\* every call of the run
UploadCall ==
  /\ req.n < MaxUploads
  /\ \E p \in UploadPaths :
       \E o \in UploadOutcomes(drive, target, p) :
          /\ drive' = o.drive
          /\ log' = o.log
          /\ req' = [path |-> p, ok |-> o.ok, n |-> req.n + 1,
                     calls |-> Append(req.calls, [path |-> p, log |-> o.log])]
  /\ UNCHANGED <<syncVars, now, retry, target, listing, overlap>>

\* scanDriveFolder(folderId, exclude = [], basePath = ''): the paths of the
\* files found, for every way the listings can go.  pending holds the folders
\* whose scan has been called and not yet made.
RECURSIVE ScanOutcomes(_, _)
ScanOutcomes(d, pending) ==
  IF pending = {} THEN { {} }
  ELSE
    LET x == CHOOSE x \in pending : TRUE
    IN UNION {
         LET files == { Append(x.base, e.name) : e \in { f \in page : ~f.folder } }
             folders == { [id |-> e.id, base |-> Append(x.base, e.name)] :
                            e \in { f \in page : f.folder } }
         IN { files \cup r :
                r \in ScanOutcomes(d, (pending \ {x}) \cup folders) }
         : page \in listFiles(d, x.id, FALSE, <<>>, ScanPageSize) }

NoListing == [done |-> FALSE, files |-> {}]

\* one call of scanDriveFolder on the synced folder
ScanCall ==
  /\ ~listing.done
  /\ \E r \in ScanOutcomes(drive, { [id |-> target, base |-> <<>>] }) :
        listing' = [done |-> TRUE, files |-> r]
  /\ UNCHANGED <<syncVars, now, retry, drive, target, req, log, overlap>>

NextDrive == UploadCall \/ ScanCall

\* ------------------------------------------------- two overlapping passes
\* Two sync() calls on the same local root and remote folder, with the
\* default options, each advancing from one await to the next.  The remote
\* folder is a sequence of files, so that it can hold two of one path; every
\* request succeeds.
Procs == {1, 2}

NoProc ==
  [pc |-> "start", state |-> loadSyncState([kind |-> "missing"]), seen |-> 0,
   local |-> [p \in Paths |-> Absent], remote |-> [p \in Paths |-> NoRemote],
   todo |-> <<>>, existing |-> 0, created |-> {},
   saved |-> [kind |-> "missing"]]

NoOverlap == [proc |-> [i \in Procs |-> NoProc], files |-> <<>>, saves |-> <<>>]

\* everything a step of an overlapping pass leaves alone, but for the local
\* files, the sidecar and the clock
overlapFrame ==
  <<localRoot, localDirs, remoteFs, remoteFolders, ticks, passes, pc, opts,
    state, local, remote, comparison, idx, results, ops, prev, io, ex, report,
    retry, drive, target, req, log, listing>>

Matching(files, p) == { k \in 1..Len(files) : files[k].path = p }

\* new Map(remote.files.map(f => [f.path, f])) over a listing that is ordered
\* newest first: of two files of one path the later entry, the older file,
\* stays
RemoteByPath(files) ==
  [p \in Paths |->
     IF Matching(files, p) = {} THEN NoRemote
     ELSE files[CHOOSE k \in Matching(files, p) :
                  \A h \in Matching(files, p) :
                     GetTime(files[k].time) <= GetTime(files[h].time)].time]

\* existingFiles.files.find(f => f.name === fileInfo.name): the first entry
\* of that name in the listing, 0 for undefined
Found(files, p) ==
  IF Matching(files, p) = {} THEN {0}
  ELSE { k \in Matching(files, p) :
           \A h \in Matching(files, p) :
              GetTime(files[k].time) >= GetTime(files[h].time) }

\* the transfers of a pass in the order sync() makes them: the uploads, the
\* downloads, then the conflicts as resolveConflict settles them
Transfers(loc, rem, cmp) ==
  LET Up(q) == [kind |-> "up", path |-> q]
      Down(q) == [kind |-> "down", path |-> q]
      Settle(q) ==
        IF IsUpload(Resolution(DefaultOpts.conflictResolution, loc[q],
                               GetTime(rem[q])))
        THEN Up(q) ELSE Down(q)
  IN [k \in 1..Len(cmp.toUpload) |-> Up(cmp.toUpload[k])] \o
     [k \in 1..Len(cmp.toDownload) |-> Down(cmp.toDownload[k])] \o
     [k \in 1..Len(cmp.conflicts) |-> Settle(cmp.conflicts[k])]

AfterTransfer(todo) == IF Tail(todo) = <<>> THEN "save" ELSE "work"

\* saveSyncState with a merge: a record of the file that is newer than the
\* pass's own stays
saveSyncStateMerged(sidecar, st) ==
  IF sidecar.kind # "ok" THEN st
  ELSE [st EXCEPT !.files = [p \in Paths |-> Max(sidecar.files[p], st.files[p])]]

\* saveSyncState(stateFile, state): the content of the file after the write
saveSyncState(sidecar, st) == st

\* sync(): loadSyncState
OverlapLoad(i) ==
  /\ overlap.proc[i].pc = "start"
  /\ overlap' = [overlap EXCEPT
                   !.proc[i].state = loadSyncState(stateFile),
                   !.proc[i].seen = Len(overlap.saves),
                   !.proc[i].pc = "scanLocal"]
  /\ UNCHANGED <<overlapFrame, now, localFs, stateFile>>

\* sync(): await scanLocalDirectory
OverlapScanLocal(i) ==
  /\ overlap.proc[i].pc = "scanLocal"
  /\ overlap' = [overlap EXCEPT
                   !.proc[i].local =
                      scanLocalDirectory(Entries(localFs, stateFile), <<>>),
                   !.proc[i].pc = "scanRemote"]
  /\ UNCHANGED <<overlapFrame, now, localFs, stateFile>>

\* sync(): await scanDriveFolder, then compareFileSets
OverlapScanRemote(i) ==
  /\ overlap.proc[i].pc = "scanRemote"
  /\ LET me == overlap.proc[i]
         rem == scanDriveFolder(RemoteByPath(overlap.files), <<>>)
         todo == Transfers(me.local, rem, compareFileSets(me.local, rem, me.state))
     IN overlap' = [overlap EXCEPT
                      !.proc[i].remote = rem,
                      !.proc[i].todo = todo,
                      !.proc[i].pc = IF todo = <<>> THEN "save" ELSE "work"]
  /\ UNCHANGED <<overlapFrame, now, localFs, stateFile>>

\* uploadFile: await client.listFiles, then find
OverlapList(i) ==
  /\ overlap.proc[i].pc = "work"
  /\ Head(overlap.proc[i].todo).kind = "up"
  /\ \E k \in Found(overlap.files, Head(overlap.proc[i].todo).path) :
        overlap' = [overlap EXCEPT !.proc[i].existing = k,
                                   !.proc[i].pc = "transfer"]
  /\ UNCHANGED <<overlapFrame, now, localFs, stateFile>>

\* uploadFile: await client.updateFile or client.uploadFile
OverlapTransfer(i) ==
  /\ overlap.proc[i].pc = "transfer"
  /\ LET me == overlap.proc[i]
         p == Head(me.todo).path
     IN overlap' =
          [overlap EXCEPT
             !.files = IF me.existing # 0
                       THEN [@ EXCEPT ![me.existing].time = ToISO(now)]
                       ELSE Append(@, [path |-> p, time |-> ToISO(now)]),
             !.proc[i].created = IF me.existing # 0 THEN @ ELSE @ \cup {p},
             !.proc[i].todo = Tail(@),
             !.proc[i].pc = AfterTransfer(me.todo)]
  /\ UNCHANGED <<overlapFrame, now, localFs, stateFile>>

\* downloadFile: await client.downloadFile, then writeFileSync
OverlapDownload(i) ==
  /\ overlap.proc[i].pc = "work"
  /\ Head(overlap.proc[i].todo).kind = "down"
  /\ localFs' = [localFs EXCEPT ![Head(overlap.proc[i].todo).path] = now]
  /\ overlap' = [overlap EXCEPT
                   !.proc[i].todo = Tail(@),
                   !.proc[i].pc = AfterTransfer(overlap.proc[i].todo)]
  /\ UNCHANGED <<overlapFrame, now, stateFile>>

\* sync(): buildSyncState and saveSyncState
OverlapSave(i) ==
  /\ overlap.proc[i].pc = "save"
  /\ LET me == overlap.proc[i]
         snapshot == [kind |-> "ok", lastSync |-> ToISO(now),
                      files |-> buildSyncState(me.local, me.remote)]
     IN /\ stateFile' = saveSyncState(stateFile, snapshot)
        /\ overlap' = [overlap EXCEPT !.proc[i].saved = snapshot,
                                      !.proc[i].pc = "done",
                                      !.saves = Append(@, i)]
  /\ UNCHANGED <<overlapFrame, now, localFs>>

\* the clock between two steps
OverlapTick ==
  /\ ticks < MaxTicks
  /\ ticks' = ticks + 1
  /\ now' = now + TickMs
  /\ UNCHANGED <<world, passes, pc, passVars, idx, results, ops, prev, io, ex,
                 report, clientVars>>

NextOverlap ==
  \/ \E i \in Procs :
        \/ OverlapLoad(i)
        \/ OverlapScanLocal(i)
        \/ OverlapScanRemote(i)
        \/ OverlapList(i)
        \/ OverlapTransfer(i)
        \/ OverlapDownload(i)
        \/ OverlapSave(i)
  \/ OverlapTick

ClientIdle ==
  /\ retry = NoRetry
  /\ drive = {}
  /\ target = Root
  /\ req = NoReq
  /\ log = <<>>
  /\ listing = NoListing
  /\ overlap = NoOverlap

\* ------------------------------------------------------------ initial states
NoEx == [path |-> <<>>, patterns |-> <<>>, result |-> <<>>]

DirsOf(present) == UNION { DirSet(p) : p \in present }

InitLocalFs ==
  { f \in [Paths -> {Absent} \cup InitTimes] :
       f[PathB] \in {Absent, 3000} /\ f[PathS] = Absent }

InitRemoteFs ==
  { f \in [Paths -> {NoRemote} \cup { ToISO(t) : t \in InitTimes }] :
       f[PathB] \in {NoRemote, ToISO(3000)} /\ f[PathS] = NoRemote }

InitStateFiles ==
  { [kind |-> "missing"], [kind |-> "corrupt"], [kind |-> "null"] } \cup
  { [kind |-> "ok", lastSync |-> ToISO(1000), files |-> f] :
       f \in { g \in [Paths -> {Absent} \cup InitStateTimes] :
                   g[PathS] = Absent } }

Init ==
  /\ localRoot \in BOOLEAN
  /\ localFs \in InitLocalFs
  /\ remoteFs \in InitRemoteFs
  /\ stateFile \in InitStateFiles
  /\ ~localRoot => /\ localFs = [p \in Paths |-> Absent]
                   /\ stateFile = [kind |-> "missing"]
  /\ localDirs = DirsOf({p \in Paths : localFs[p] # Absent})
  /\ remoteFolders = DirsOf({p \in Paths : remoteFs[p] # NoRemote})
  /\ now = NowInit
  /\ ticks = 0
  /\ passes = 0
  /\ pc = "idle"
  /\ opts = DefaultOpts
  /\ state = loadSyncState([kind |-> "missing"])
  /\ local = [p \in Paths |-> Absent]
  /\ remote = [p \in Paths |-> NoRemote]
  /\ comparison = EmptyComparison
  /\ idx = 1
  /\ results = EmptyResults
  /\ ops = {}
  /\ prev = NoPrev
  /\ io = NoIo
  /\ ex = NoEx
  /\ report = NoReport
  /\ ClientIdle

Next ==
  \/ Start
  \/ ScanLocal
  \/ ScanRemote
  \/ Compare
  \/ UploadStep
  \/ DeleteRemoteStep
  \/ DownloadStep
  \/ DeleteLocalStep
  \/ ConflictStep
  \/ SaveState
  \/ Tick

Spec == Init /\ [][Next]_vars


\* A single-file world whose timestamps sit on both sides of the tolerance
\* boundary; the comparison and the pass are the same as in Spec.
BoundaryTimes == {2000, 2999, 3000, 3001, 4001}
BoundaryStateTimes == {2000}

InitCompare ==
  /\ localRoot = TRUE
  /\ \E t \in {Absent} \cup BoundaryTimes :
        localFs = [p \in Paths |-> IF p = PathA THEN t ELSE Absent]
  /\ \E t \in {NoRemote} \cup { ToISO(u) : u \in BoundaryTimes } :
        remoteFs = [p \in Paths |-> IF p = PathA THEN t ELSE NoRemote]
  /\ \E t \in {Absent} \cup BoundaryStateTimes :
        stateFile \in { [kind |-> "missing"],
                        [kind |-> "ok", lastSync |-> ToISO(2000),
                         files |-> [p \in Paths |-> IF p = PathA THEN t
                                                    ELSE Absent]] }
  /\ localDirs = {}
  /\ remoteFolders = {}
  /\ now = NowInit
  /\ ticks = 0
  /\ passes = 0
  /\ pc = "idle"
  /\ opts = DefaultOpts
  /\ state = loadSyncState([kind |-> "missing"])
  /\ local = [p \in Paths |-> Absent]
  /\ remote = [p \in Paths |-> NoRemote]
  /\ comparison = EmptyComparison
  /\ idx = 1
  /\ results = EmptyResults
  /\ ops = {}
  /\ prev = NoPrev
  /\ io = NoIo
  /\ ex = NoEx
  /\ report = NoReport
  /\ ClientIdle

SpecCompare == InitCompare /\ [][Next]_vars

\* A pass with an --exclude list: the directory d, or every path that ends
\* with b.
ExcludeLists == { << <<"d">> >>, << <<"*", "b">> >> }
ExcludeTimes == {1000, 5000}

InitExclude ==
  /\ opts \in { [DefaultOpts EXCEPT !.exclude = e] : e \in ExcludeLists }
  /\ localRoot = TRUE
  /\ localFs \in { f \in [Paths -> {Absent} \cup ExcludeTimes] :
                     f[PathB] \in {Absent, 5000} /\ f[PathS] = Absent }
  /\ remoteFs \in { f \in [Paths -> {NoRemote} \cup { ToISO(t) : t \in ExcludeTimes }] :
                      f[PathB] \in {NoRemote, ToISO(5000)} /\ f[PathS] = NoRemote }
  /\ stateFile \in { [kind |-> "missing"],
                      [kind |-> "ok", lastSync |-> ToISO(1000),
                       files |-> [p \in Paths |-> IF p = PathS THEN Absent
                                                  ELSE 1000]] }
  /\ localDirs = DirsOf({p \in Paths : localFs[p] # Absent})
  /\ remoteFolders = DirsOf({p \in Paths : remoteFs[p] # NoRemote})
  /\ now = NowInit
  /\ ticks = 0
  /\ passes = 0
  /\ pc = "idle"
  /\ state = loadSyncState([kind |-> "missing"])
  /\ local = [p \in Paths |-> Absent]
  /\ remote = [p \in Paths |-> NoRemote]
  /\ comparison = EmptyComparison
  /\ idx = 1
  /\ results = EmptyResults
  /\ ops = {}
  /\ prev = NoPrev
  /\ io = NoIo
  /\ ex = NoEx
  /\ report = NoReport
  /\ ClientIdle

SpecExclude == InitExclude /\ [][Next]_vars

\* shouldExclude on its own: one call on a path string and a pattern list.
\* Strings are sequences of characters; every string of up to MaxLen
\* characters is tried as the path and as a pattern.
PathChars == {"a", "b", "/"}
PatternChars == {"a", "b", "*"}

Strings(chars) == UNION { [1..k -> chars] : k \in 1..MaxLen }

PatternLists ==
  LET P == Strings(PatternChars)
  IN {<<>>} \cup { <<x>> : x \in P } \cup { <<x, y>> : x \in P, y \in P }

InitShouldExclude ==
  /\ ex \in [path : Strings(PathChars), patterns : PatternLists,
              result : {<<>>}]
  /\ localRoot = TRUE
  /\ localFs = [p \in Paths |-> Absent]
  /\ remoteFs = [p \in Paths |-> NoRemote]
  /\ stateFile = [kind |-> "missing"]
  /\ localDirs = {}
  /\ remoteFolders = {}
  /\ now = NowInit
  /\ ticks = 0
  /\ passes = 0
  /\ pc = "idle"
  /\ opts = DefaultOpts
  /\ state = loadSyncState([kind |-> "missing"])
  /\ local = [p \in Paths |-> Absent]
  /\ remote = [p \in Paths |-> NoRemote]
  /\ comparison = EmptyComparison
  /\ idx = 1
  /\ results = EmptyResults
  /\ ops = {}
  /\ prev = NoPrev
  /\ io = NoIo
  /\ report = NoReport
  /\ ClientIdle

\* the call shouldExclude(ex.path, ex.patterns) returns
CallShouldExclude ==
  /\ ex.result = <<>>
  /\ ex' = [ex EXCEPT !.result = << shouldExclude(ex.path, ex.patterns) >>]
  /\ UNCHANGED <<world, now, ticks, passes, pc, passVars, idx, results, ops,
                 prev, io, report, clientVars>>

NextShouldExclude == CallShouldExclude

SpecShouldExclude == InitShouldExclude /\ [][NextShouldExclude]_vars

\* status() on its own, on every tree and state file of Init
NextStatus == StatusCall

SpecStatus == Init /\ [][NextStatus]_vars

\* the sync engine before its first call
SyncIdle ==
  /\ localRoot = TRUE
  /\ localFs = [p \in Paths |-> Absent]
  /\ remoteFs = [p \in Paths |-> NoRemote]
  /\ stateFile = [kind |-> "missing"]
  /\ localDirs = {}
  /\ remoteFolders = {}
  /\ ticks = 0
  /\ passes = 0
  /\ pc = "idle"
  /\ opts = DefaultOpts
  /\ state = loadSyncState([kind |-> "missing"])
  /\ local = [p \in Paths |-> Absent]
  /\ remote = [p \in Paths |-> NoRemote]
  /\ comparison = EmptyComparison
  /\ idx = 1
  /\ results = EmptyResults
  /\ ops = {}
  /\ prev = NoPrev
  /\ io = NoIo
  /\ ex = NoEx
  /\ report = NoReport

\* withRetry on its own: one execution around any of the wrapped requests
InitRetry ==
  /\ SyncIdle
  /\ now = NowInit
  /\ retry \in { [NoRetry EXCEPT !.fn = f, !.pc = "call"] : f \in WrappedCalls }
  /\ drive = {}
  /\ target = Root
  /\ req = NoReq
  /\ log = <<>>
  /\ listing = NoListing
  /\ overlap = NoOverlap

SpecRetry == InitRetry /\ [][NextRetry]_vars /\ WF_vars(NextRetry)

\* A world whose remote folder may hold a file with the name of the sidecar;
\* the pass is the same as in Spec.
InitSidecar ==
  /\ localRoot = TRUE
  /\ \E t \in {Absent} \cup InitTimes :
        localFs = [p \in Paths |-> IF p = PathA THEN t ELSE Absent]
  /\ \E t \in {NoRemote} \cup { ToISO(u) : u \in InitTimes },
        s \in {NoRemote, ToISO(3000)} :
        remoteFs = [p \in Paths |-> IF p = PathA THEN t
                                    ELSE IF p = PathS THEN s ELSE NoRemote]
  /\ \E t \in {Absent} \cup InitStateTimes :
        stateFile \in { [kind |-> "missing"],
                        [kind |-> "ok", lastSync |-> ToISO(1000),
                         files |-> [p \in Paths |-> IF p = PathA THEN t
                                                    ELSE Absent]] }
  /\ localDirs = {}
  /\ remoteFolders = {}
  /\ now = NowInit
  /\ ticks = 0
  /\ passes = 0
  /\ pc = "idle"
  /\ opts = DefaultOpts
  /\ state = loadSyncState([kind |-> "missing"])
  /\ local = [p \in Paths |-> Absent]
  /\ remote = [p \in Paths |-> NoRemote]
  /\ comparison = EmptyComparison
  /\ idx = 1
  /\ results = EmptyResults
  /\ ops = {}
  /\ prev = NoPrev
  /\ io = NoIo
  /\ ex = NoEx
  /\ report = NoReport
  /\ ClientIdle

SpecSidecar == InitSidecar /\ [][Next]_vars

\* Two passes started on a tree whose files are not yet on the remote side,
\* or are there with an older or a newer time.
InitOverlap ==
  /\ localRoot = TRUE
  /\ \E t \in InitTimes :
        localFs = [p \in Paths |-> IF p = PathA THEN t ELSE Absent]
  /\ stateFile \in { [kind |-> "missing"],
                      [kind |-> "ok", lastSync |-> ToISO(1000),
                       files |-> [NoRecords EXCEPT ![PathA] = 1000]] }
  /\ localDirs = {}
  /\ remoteFs = [p \in Paths |-> NoRemote]
  /\ remoteFolders = {}
  /\ now = NowInit
  /\ ticks = 0
  /\ passes = 0
  /\ pc = "idle"
  /\ opts = DefaultOpts
  /\ state = loadSyncState([kind |-> "missing"])
  /\ local = [p \in Paths |-> Absent]
  /\ remote = [p \in Paths |-> NoRemote]
  /\ comparison = EmptyComparison
  /\ idx = 1
  /\ results = EmptyResults
  /\ ops = {}
  /\ prev = NoPrev
  /\ io = NoIo
  /\ ex = NoEx
  /\ report = NoReport
  /\ retry = NoRetry
  /\ drive = {}
  /\ target = Root
  /\ req = NoReq
  /\ log = <<>>
  /\ listing = NoListing
  /\ \E held \in SUBSET { [path |-> PathA, time |-> ToISO(t)] : t \in InitTimes } :
        /\ Cardinality(held) <= 1
        /\ overlap = [NoOverlap EXCEPT
                        !.files = IF held = {} THEN <<>>
                                  ELSE << CHOOSE f \in held : TRUE >>]

SpecOverlap == InitOverlap /\ [][NextOverlap]_vars

\* The Drive client on a store that holds the folder f in the root and any
\* of: the files a, ab and c and the folder d in f, the file b in that d, a
\* file a and a folder d in the root.  The synced folder is f or the root.
Entry(id, name, parent, folder) ==
  [id |-> id, name |-> name, parent |-> parent, folder |-> folder]

FolderF == Entry(1, <<"f">>, Root, TRUE)

FolderD == Entry(2, <<"d">>, FolderF.id, TRUE)

OptionalEntries ==
  { FolderD,
    Entry(3, <<"b">>, FolderD.id, FALSE),
    Entry(4, <<"a">>, FolderF.id, FALSE),
    Entry(5, <<"a", "b">>, FolderF.id, FALSE),
    Entry(6, <<"c">>, FolderF.id, FALSE),
    Entry(7, <<"a">>, Root, FALSE),
    Entry(8, <<"d">>, Root, TRUE) }

InitDrive ==
  /\ SyncIdle
  /\ now = NowInit
  /\ retry = NoRetry
  /\ \E some \in SUBSET OptionalEntries :
        /\ \A e \in some : e.parent = FolderD.id => FolderD \in some
        /\ drive = {FolderF} \cup some
  /\ target \in {Root, FolderF.id}
  /\ req = NoReq
  /\ log = <<>>
  /\ listing = NoListing
  /\ overlap = NoOverlap

SpecDrive == InitDrive /\ [][NextDrive]_vars

\* ------------------------------------------------------------------ claims
InSeq(s, x) == \E i \in 1..Len(s) : s[i] = x

Elems(s) == { s[i] : i \in 1..Len(s) }

Count(s, x) == Cardinality({ i \in 1..Len(s) : s[i] = x })

Compared == pc \in Elems(PhaseOrder) \cup {"save", "done"}

ClassNames == {"toUpload", "toDownload", "onlyLocal", "onlyRemote",
               "conflicts", "inSync"}

\* the classification sets that hold path p
ClassesOf(p) == { c \in ClassNames : InSeq(comparison[c], p) }

OnBothSides(p) == local[p] # Absent /\ remote[p] # NoRemote

\* C7: a path present on both sides that has a prior state record is a
\* conflict when both times exceed the state time by more than 1000 ms
\* (whichever of the two is larger), toUpload when only the local time does,
\* toDownload when only the remote time does, and inSync otherwise.
C7_StateBranch ==
  Compared =>
    \A p \in Paths :
      (OnBothSides(p) /\ state.files[p] # Absent) =>
        LET localChanged == local[p] > state.files[p] + 1000
            remoteChanged == GetTime(remote[p]) > state.files[p] + 1000
        IN ClassesOf(p) =
             { IF localChanged /\ remoteChanged THEN "conflicts"
               ELSE IF localChanged THEN "toUpload"
               ELSE IF remoteChanged THEN "toDownload"
               ELSE "inSync" }

C7_Witness ==
  /\ Compared
  /\ OnBothSides(PathA)
  /\ state.files[PathA] = 2000
  /\ local[PathA] = 3001
  /\ GetTime(remote[PathA]) = 4001
  /\ InSeq(comparison.conflicts, PathA)

\* C8: a path present on exactly one side is classified by the prior state:
\* only remote with a record is onlyRemote, only local with a record is
\* onlyLocal, only local without a record is toUpload, only remote without a
\* record is toDownload.
C8_OneSide ==
  Compared =>
    \A p \in Paths :
      /\ (local[p] = Absent /\ remote[p] # NoRemote) =>
            ClassesOf(p) = { IF state.files[p] # Absent THEN "onlyRemote"
                             ELSE "toDownload" }
      /\ (local[p] # Absent /\ remote[p] = NoRemote) =>
            ClassesOf(p) = { IF state.files[p] # Absent THEN "onlyLocal"
                             ELSE "toUpload" }

C8_Witness ==
  /\ Compared
  /\ local[PathA] = Absent
  /\ remote[PathA] # NoRemote
  /\ state.files[PathA] # Absent
  /\ InSeq(comparison.onlyRemote, PathA)

\* every list of the results object and the error list, as one set of paths
Touched ==
  { results.uploaded[i] : i \in 1..Len(results.uploaded) } \cup
  { results.downloaded[i] : i \in 1..Len(results.downloaded) } \cup
  { results.deletedLocal[i] : i \in 1..Len(results.deletedLocal) } \cup
  { results.deletedRemote[i] : i \in 1..Len(results.deletedRemote) } \cup
  { results.conflicts[i].path : i \in 1..Len(results.conflicts) } \cup
  { results.errors[i].file : i \in 1..Len(results.errors) }

\* C9: a path present on both sides without a prior state record is inSync
\* when the two times differ by less than 1000 ms, and the pass then does
\* nothing to it; otherwise it is toUpload when the local time is the larger
\* and toDownload when the remote time is the larger.
C9_NoStateBranch ==
  Compared =>
    \A p \in Paths :
      (OnBothSides(p) /\ state.files[p] = Absent) =>
        LET l == local[p]
            r == GetTime(remote[p])
            within == (l - r < 1000) /\ (r - l < 1000)
        IN /\ ClassesOf(p) = { IF within THEN "inSync"
                               ELSE IF l > r THEN "toUpload"
                               ELSE "toDownload" }
           /\ within => /\ p \notin Touched
                        /\ localFs[p] = local[p]
                        /\ remoteFs[p] = remote[p]

C9_Witness ==
  /\ pc = "done"
  /\ ~opts.dryRun
  /\ OnBothSides(PathA)
  /\ state.files[PathA] = Absent
  /\ local[PathA] = 2000
  /\ GetTime(remote[PathA]) = 2999
  /\ InSeq(comparison.inSync, PathA)


OpKinds(o) == { c[1] : c \in o }

PrevCompleted == prev.ran /\ prev.pc = "done"

\* C1: the state saved by a non-dry-run pass has a record only for a path
\* that is present once the actions have run; a path whose upload or download
\* failed in the pass, or that the pass deleted, has no record.
C1_StateReflectsObserved ==
  (pc = "done" /\ ~opts.dryRun) =>
    \A p \in Paths :
      stateFile.files[p] # Absent =>
        /\ localFs[p] # Absent \/ remoteFs[p] # NoRemote
        /\ [action |-> "upload", file |-> p] \notin Elems(results.errors)
        /\ [action |-> "download", file |-> p] \notin Elems(results.errors)
        /\ p \notin Elems(results.deletedLocal)
        /\ p \notin Elems(results.deletedRemote)

\* C2: a path whose upload (download) failed in a non-dry-run pass is
\* classified toUpload (toDownload) again by the next pass.
C2_FailedTransferRetried ==
  (Compared /\ PrevCompleted /\ ~prev.opts.dryRun) =>
    \A p \in Paths :
      /\ [action |-> "upload", file |-> p] \in Elems(prev.results.errors)
            => InSeq(comparison.toUpload, p)
      /\ [action |-> "download", file |-> p] \in Elems(prev.results.errors)
            => InSeq(comparison.toDownload, p)

\* C3: a both-direction pass that follows an error-free non-dry-run
\* both-direction pass uploads, downloads and deletes nothing, and finds every
\* path the first pass transferred inSync.
C3_Idempotent ==
  (/\ pc = "done"
   /\ opts.direction = "both"
   /\ PrevCompleted
   /\ prev.opts.direction = "both"
   /\ ~prev.opts.dryRun
   /\ prev.results.stats.errors = 0) =>
     /\ results.uploaded = <<>>
     /\ results.downloaded = <<>>
     /\ results.deletedLocal = <<>>
     /\ results.deletedRemote = <<>>
     /\ \A p \in Elems(prev.results.uploaded) \cup Elems(prev.results.downloaded)
               \cup { prev.results.conflicts[i].path :
                        i \in 1..Len(prev.results.conflicts) } :
           InSeq(comparison.inSync, p)

ActionKind(ph) ==
  CASE ph = "upload" -> "upload"
    [] ph = "deleteRemote" -> "delete-remote"
    [] ph = "download" -> "download"
    [] ph = "deleteLocal" -> "delete-local"
    [] ph = "conflict" -> "resolve-conflict"

SuccessList(ph) ==
  CASE ph = "upload" -> results.uploaded
    [] ph = "deleteRemote" -> results.deletedRemote
    [] ph = "download" -> results.downloaded
    [] ph = "deleteLocal" -> results.deletedLocal
    [] ph = "conflict" -> [i \in 1..Len(results.conflicts) |->
                             results.conflicts[i].path]

\* element i of loop k has been attempted at the current position
Attempted(k, i) ==
  \/ pc \in {"save", "done"}
  \/ /\ pc \in Elems(PhaseOrder)
     /\ \/ PhaseIndex(pc) > k
        \/ PhaseIndex(pc) = k /\ idx > i

\* C4: every per-path action is isolated: each classified action that has been
\* attempted is in its result list or has exactly one error entry with its path
\* and action kind, never both and never twice; a failure leaves the pass
\* running, so that at the end every classified action has been attempted, the
\* state has been saved and nothing was thrown.
C4_Isolated ==
  /\ Compared =>
       \A k \in 1..Len(PhaseOrder) :
         LET ph == PhaseOrder[k]
             items == PhaseItems(comparison, opts, ph)
         IN \A i \in 1..Len(items) :
              Count(SuccessList(ph), items[i]) +
              Count(results.errors, [action |-> ActionKind(ph), file |-> items[i]])
                = IF Attempted(k, i) THEN 1 ELSE 0
  /\ Len(results.errors) > 0 => pc \in Elems(PhaseOrder) \cup {"save", "done"}
  /\ (pc = "done" /\ ~opts.dryRun) => "saveSyncState" \in OpKinds(ops)

C4_Witness ==
  /\ pc = "done"
  /\ results.errors = << [action |-> "upload", file |-> PathA] >>
  /\ results.uploaded = << PathB >>
  /\ "saveSyncState" \in OpKinds(ops)

\* C5: while the delete flag is not set no step of a pass calls deleteFile or
\* removes a local file: a file present before the step is present after it.
C5_NoDeleteWithoutFlag ==
  [][ ~opts'.deleteOrphans =>
        /\ "deleteFile" \notin OpKinds(ops')
        /\ "unlink" \notin OpKinds(ops')
        /\ \A p \in Paths :
             /\ localFs[p] # Absent => localFs'[p] # Absent
             /\ remoteFs[p] # NoRemote => remoteFs'[p] # NoRemote ]_vars

C5_Witness ==
  /\ pc = "done"
  /\ ~opts.deleteOrphans
  /\ ~opts.dryRun
  /\ opts.direction = "both"
  /\ comparison.onlyRemote = << PathA >>
  /\ comparison.onlyLocal = << PathB >>

\* C6: a dry-run pass changes nothing: neither the local tree, nor the remote
\* store, nor the state file.
C6_DryRunPure == [][ opts'.dryRun => UNCHANGED world ]_vars

Uploaded(p) == <<"updateFile", p>> \in ops \/ <<"uploadFile", p>> \in ops

Downloaded(p) == <<"writeFile", p>> \in ops

\* C11: every resolved conflict reports the resolution its strategy
\* prescribes and, in a non-dry-run pass, has made that one transfer and not
\* the opposite one: local uploads, remote downloads, newer uploads when the
\* local time is strictly later and downloads when the remote time is.
C11_OneTransfer ==
  \A i \in 1..Len(results.conflicts) :
    LET c == results.conflicts[i]
        p == c.path
        l == local[p]
        r == GetTime(remote[p])
        s == opts.conflictResolution
        up == opts.dryRun \/ (Uploaded(p) /\ ~Downloaded(p)
                              /\ localFs[p] = local[p])
        down == opts.dryRun \/ (Downloaded(p) /\ ~Uploaded(p)
                                /\ remoteFs[p] = remote[p])
    IN /\ s = "local" => c.resolution = "upload-local" /\ up
       /\ s = "remote" => c.resolution = "download-remote" /\ down
       /\ (s = "newer" /\ l > r) => c.resolution = "upload-local (newer)" /\ up
       /\ (s = "newer" /\ r > l) => c.resolution = "download-remote (newer)" /\ down

C11_Witness ==
  /\ pc = "done"
  /\ ~opts.dryRun
  /\ opts.conflictResolution = "newer"
  /\ local[PathA] = 3000
  /\ remote[PathA] = ToISO(5000)
  /\ results.conflicts = << [path |-> PathA, resolution |-> "download-remote (newer)"] >>
  /\ Downloaded(PathA)

\* C12: whatever the direction, every path classified conflict has been
\* handed to the resolver exactly once when the pass ends: it has one entry in
\* the conflicts list or one resolve-conflict error, and no other action.
C12_ConflictsAlwaysResolved ==
  pc = "done" =>
    \A p \in Elems(comparison.conflicts) :
      /\ Count(SuccessList("conflict"), p) +
         Count(results.errors, [action |-> "resolve-conflict", file |-> p]) = 1
      /\ p \notin Elems(results.uploaded) \cup Elems(results.downloaded)
                  \cup Elems(results.deletedLocal) \cup Elems(results.deletedRemote)

C12_Witness ==
  /\ pc = "done"
  /\ ~opts.dryRun
  /\ opts.direction = "up"
  /\ results.conflicts = << [path |-> PathA, resolution |-> "download-remote"] >>
  /\ Downloaded(PathA)

DeleteGate(sides) == opts.deleteOrphans /\ opts.direction \in sides

\* C13: when the pass ends, the remote deletion of an onlyRemote path has been
\* attempted exactly when the delete flag is set and the direction is up or
\* both, the local removal of an onlyLocal path exactly when the flag is set
\* and the direction is down or both; an onlyRemote path never causes a local
\* removal and an onlyLocal path never a remote deletion; deleteFile and unlink
\* are issued for no other path.
C13_OrphanGate ==
  pc = "done" =>
    /\ \A p \in Elems(comparison.onlyRemote) :
         /\ (Count(results.deletedRemote, p) +
             Count(results.errors, [action |-> "delete-remote", file |-> p]) = 1)
              <=> DeleteGate({"up", "both"})
         /\ Count(results.deletedRemote, p) +
            Count(results.errors, [action |-> "delete-remote", file |-> p]) <= 1
         /\ (p \in Elems(results.deletedRemote) /\ ~opts.dryRun)
              => remoteFs[p] = NoRemote
         /\ <<"unlink", p>> \notin ops
         /\ p \notin Elems(results.deletedLocal)
    /\ \A p \in Elems(comparison.onlyLocal) :
         /\ (Count(results.deletedLocal, p) +
             Count(results.errors, [action |-> "delete-local", file |-> p]) = 1)
              <=> DeleteGate({"down", "both"})
         /\ Count(results.deletedLocal, p) +
            Count(results.errors, [action |-> "delete-local", file |-> p]) <= 1
         /\ (p \in Elems(results.deletedLocal) /\ ~opts.dryRun)
              => localFs[p] = Absent
         /\ <<"deleteFile", p>> \notin ops
         /\ p \notin Elems(results.deletedRemote)
    /\ \A p \in Paths :
         /\ <<"deleteFile", p>> \in ops => p \in Elems(comparison.onlyRemote)
         /\ <<"unlink", p>> \in ops => p \in Elems(comparison.onlyLocal)

C13_Witness ==
  /\ pc = "done"
  /\ ~opts.dryRun
  /\ opts.deleteOrphans
  /\ opts.direction = "up"
  /\ comparison.onlyRemote = << PathA >>
  /\ comparison.onlyLocal = << PathB >>
  /\ results.stats.deletedRemote = 1
  /\ results.stats.deletedLocal = 0
  /\ localFs[PathB] # Absent

\* the positions of the wildcard in a pattern
Stars(pattern) == { i \in 1..Len(pattern) : pattern[i] = "*" }

\* the path segments of a path string: the maximal runs without a slash
Segments(path) ==
  { SubSeq(path, ij[1], ij[2]) :
      ij \in { x \in (1..Len(path)) \X (1..Len(path)) :
                 /\ x[1] <= x[2]
                 /\ \A k \in x[1]..x[2] : path[k] # "/"
                 /\ x[1] = 1 \/ path[x[1] - 1] = "/"
                 /\ x[2] = Len(path) \/ path[x[2] + 1] = "/" } }

\* the matching rules as the specification words them
RuleMatches(path, pattern) ==
  LET n == Len(pattern)
  IN IF Stars(pattern) = {}
     THEN path = pattern \/ pattern \in Segments(path)
     ELSE IF pattern[1] = "*" THEN EndsWith(path, SubSeq(pattern, 2, n))
     ELSE IF pattern[n] = "*" THEN StartsWith(path, SubSeq(pattern, 1, n - 1))
     ELSE LET k == CHOOSE k \in Stars(pattern) : TRUE
          IN /\ StartsWith(path, SubSeq(pattern, 1, k - 1))
             /\ EndsWith(path, SubSeq(pattern, k + 1, n))

\* C14: shouldExclude(path, patterns) of the sync engine returns true exactly
\* when some pattern matches: a leading * matches a path that ends with the
\* rest, a trailing * a path that starts with the rest, a single * elsewhere a
\* path that starts with the part before it and ends with the part after it,
\* and a pattern without * a path it equals or of which it is a complete
\* segment.  (Patterns with at most one * are considered.)
C14_ExcludeRules ==
  (/\ ex.result # <<>>
   /\ \A i \in 1..Len(ex.patterns) : Cardinality(Stars(ex.patterns[i])) <= 1) =>
     ex.result[1] = (\E i \in 1..Len(ex.patterns) :
                       RuleMatches(ex.path, ex.patterns[i]))

\* C15: a path for which the exclusion predicate is true, itself or through
\* an excluded ancestor directory, is in none of the six classification sets,
\* is never uploaded, downloaded or deleted by the pass (no result entry and
\* no mutating call names it, both copies stay as they were scanned), and has
\* no record in the state a non-dry-run pass saves.
C15_ExcludedUntouched ==
  \A p \in Paths :
    Skipped(p, opts.exclude) =>
      /\ ClassesOf(p) = {}
      /\ p \notin Touched
      /\ \A c \in ops : c[2] # p
      /\ (pc = "done" /\ ~opts.dryRun) =>
            /\ stateFile.kind = "ok"
            /\ stateFile.files[p] = Absent

C15_Witness ==
  /\ pc = "done"
  /\ ~opts.dryRun
  /\ opts.exclude = << <<"d">> >>
  /\ Skipped(PathB, opts.exclude)
  /\ ~Skipped(PathA, opts.exclude)
  /\ localFs[PathB] = Absent
  /\ remoteFs[PathB] # NoRemote
  /\ results.uploaded = << PathA >>
  /\ stateFile.files[PathA] # Absent
  /\ stateFile.files[PathB] = Absent

\* C16: a pass whose state file is missing or corrupt (unparseable, or
\* parseable but not a state object) does not fail at the comparison: the
\* prior state counts as empty and no path is classified onlyLocal,
\* onlyRemote or conflict.
C16_StateErrorRecovered ==
  [][ (pc = "compare" /\ stateFile.kind # "ok") =>
        /\ pc' # "threw"
        /\ comparison'.onlyLocal = <<>>
        /\ comparison'.onlyRemote = <<>>
        /\ comparison'.conflicts = <<>> ]_vars

RootMade == { <<"mkdir", <<>> >> }

\* C17: once a scan of a pass has failed the pass is aborted with the error:
\* it has compared nothing, has no result entry, has issued no upload,
\* download, deletion or conflict resolution, has not written the state file,
\* and does nothing afterwards.
C17_ScanFailureAborts ==
  [][ io'.scanFailed =>
        /\ pc' = "threw"
        /\ comparison' = EmptyComparison
        /\ results' = EmptyResults
        /\ ops' \subseteq RootMade
        /\ io'.saves = 0
        /\ UNCHANGED world ]_vars

C17_Witness ==
  /\ io.scanFailed
  /\ pc = "threw"
  /\ local[PathA] # Absent
  /\ remoteFs[PathB] # NoRemote
  /\ remote = [p \in Paths |-> NoRemote]
  /\ stateFile.kind = "missing"

NonExcluded == { p \in Paths : ~Skipped(p, opts.exclude) }

LocalPaths == { p \in NonExcluded : localFs[p] # Absent }

RemotePaths == { p \in NonExcluded : remoteFs[p] # NoRemote }

\* C18: after a non-dry-run pass with direction both that reports zero
\* errors, the non-excluded paths present locally are the non-excluded paths
\* present remotely.
C18_Converged ==
  (/\ pc = "done"
   /\ ~opts.dryRun
   /\ opts.direction = "both"
   /\ results.stats.errors = 0) => LocalPaths = RemotePaths

\* C18 (amended): after a non-dry-run pass with direction both and the
\* delete flag set that reports zero errors, the non-excluded paths present
\* locally are the non-excluded paths present remotely.
C18_ConvergedWithDelete ==
  (/\ pc = "done"
   /\ ~opts.dryRun
   /\ opts.direction = "both"
   /\ opts.deleteOrphans
   /\ results.stats.errors = 0) => LocalPaths = RemotePaths

C18_Witness ==
  /\ pc = "done"
  /\ ~opts.dryRun
  /\ opts.direction = "both"
  /\ opts.deleteOrphans
  /\ results.stats.errors = 0
  /\ opts.exclude = << <<"*", "b">> >>
  /\ results.downloaded = << PathA >>
  /\ localFs[PathB] # Absent
  /\ remoteFs[PathB] = NoRemote
  /\ LocalPaths = { PathA }

\* the running pass is the real run of the dry run that completed before it
RealAfterDry ==
  /\ pc = "done"
  /\ ~opts.dryRun
  /\ PrevCompleted
  /\ prev.opts = [opts EXCEPT !.dryRun = TRUE]

Rank(c) ==
  CASE c \in {"idle", "threw"} -> 0
    [] c = "scan" -> 1
    [] c = "scanRemote" -> 2
    [] c = "compare" -> 3
    [] c \in Elems(PhaseOrder) -> 4
    [] c = "save" -> 5
    [] c = "done" -> 6

Planned ==
  Len(PhaseItems(comparison, opts, "upload")) +
  Len(PhaseItems(comparison, opts, "deleteRemote")) +
  Len(PhaseItems(comparison, opts, "download")) +
  Len(PhaseItems(comparison, opts, "deleteLocal")) +
  Len(PhaseItems(comparison, opts, "conflict"))

Handled ==
  Len(results.uploaded) + Len(results.downloaded) + Len(results.deletedLocal) +
  Len(results.deletedRemote) + Len(results.conflicts) + Len(results.errors)

\* the order of the steps of a pass, without the count of state-file writes
Ordered ==
  /\ io'.loads = IF pc \in {"idle", "done"} /\ pc' \notin {"idle", "done"}
                 THEN (IF pc' = "scan" THEN 1 ELSE 0)
                 ELSE io.loads
  /\ state' # state => pc' \in {"scan", "threw"} /\ pc \in {"idle", "done"}
  /\ Rank(pc') >= 1 => io'.loads = 1
  /\ (Rank(pc) \in 1..5 /\ pc' # "threw") =>
        /\ Rank(pc') >= Rank(pc)
        /\ Rank(pc) <= 2 => Rank(pc') = Rank(pc) + 1
  /\ (local' # local /\ Rank(pc') >= 2) => pc = "scan"
  /\ (remote' # remote /\ Rank(pc') >= 2) => pc = "scanRemote"
  /\ (comparison' # comparison /\ Rank(pc') >= 2) => pc = "compare"
  /\ (results' # results /\ Rank(pc') >= 2) => Rank(pc) = 4
  /\ (ops' # ops /\ Rank(pc') >= 2) => Rank(pc) \in {4, 5}
  /\ (io'.saves > io.saves \/ stateFile' # stateFile) =>
        /\ pc = "save" /\ pc' = "done"
        /\ io'.saves = 1
        /\ Handled = Planned

\* C20: a pass is one strictly ordered sequence: the state file is read
\* exactly once, before the scans; the local and then the remote scan finish
\* before the comparison, the comparison before the first action; every pass
\* writes the state file exactly once, after every per-path action has
\* completed or failed, and persists nothing in between.
C20_StrictOrder ==
  [][ /\ Ordered
      /\ pc' = "done" => io'.saves = 1 ]_vars

\* C20 (amended): the same order, and the state file is written exactly once
\* by a non-dry-run pass that runs to its end, after every per-path action
\* has completed or failed; a dry run and a pass that is aborted never write
\* it.
C20_StrictOrderRealRun ==
  [][ /\ Ordered
      /\ pc' = "done" => io'.saves = (IF opts'.dryRun THEN 0 ELSE 1)
      /\ pc' # "done" => io'.saves = 0 ]_vars

C20_Witness ==
  /\ pc = "done"
  /\ ~opts.dryRun
  /\ io = [loads |-> 1, saves |-> 1, scanFailed |-> FALSE]
  /\ Len(results.uploaded) = 1
  /\ Len(results.errors) = 1
  /\ stateFile.lastSync = ToISO(now)

\* the elements of loop k that have been attempted at the current position
AttemptedIn(k) ==
  Cardinality({ i \in 1..Len(PhaseItems(comparison, opts, PhaseOrder[k])) :
                  Attempted(k, i) })

\* C22: in the results of sync(), at every point, each count is the length
\* of its list, and every attempted action has added exactly one entry to
\* exactly one list: a resolved conflict is only in conflicts, a failed
\* resolution only in errors.
C22_CountsMatchLists ==
  /\ results.stats.uploadedFiles = Len(results.uploaded)
  /\ results.stats.downloadedFiles = Len(results.downloaded)
  /\ results.stats.deletedLocal = Len(results.deletedLocal)
  /\ results.stats.deletedRemote = Len(results.deletedRemote)
  /\ results.stats.conflicts = Len(results.conflicts)
  /\ results.stats.errors = Len(results.errors)
  /\ Compared =>
        /\ Handled = AttemptedIn(1) + AttemptedIn(2) + AttemptedIn(3)
                        + AttemptedIn(4) + AttemptedIn(5)
        /\ \A p \in Elems(comparison.conflicts) :
             /\ p \notin Elems(results.uploaded) \cup Elems(results.downloaded)
             /\ \A i \in 1..Len(results.errors) :
                  results.errors[i].file = p =>
                    /\ results.errors[i].action = "resolve-conflict"
                    /\ p \notin Elems(SuccessList("conflict"))
  /\ ~Compared => Handled = 0

C22_Witness ==
  /\ pc = "done"
  /\ ~opts.dryRun
  /\ results.conflicts = << [path |-> PathA, resolution |-> "upload-local"] >>
  /\ results.errors = << [action |-> "resolve-conflict", file |-> PathB] >>
  /\ results.stats.conflicts = 1
  /\ results.stats.errors = 1
  /\ results.stats.uploadedFiles = 0

\* C30: compareFileSets partitions its input: a path present in the local or
\* the remote scan is in exactly one classification set, once; a path absent
\* from both scans, also one with a prior state record, is in none.
C30_Partition ==
  Compared =>
    \A p \in Paths :
      IF local[p] # Absent \/ remote[p] # NoRemote
      THEN /\ Cardinality(ClassesOf(p)) = 1
           /\ \A c \in ClassesOf(p) : Count(comparison[c], p) = 1
      ELSE ClassesOf(p) = {}

C30_Witness ==
  /\ Compared
  /\ state.files[PathA] # Absent
  /\ local[PathA] = Absent
  /\ remote[PathA] = NoRemote
  /\ ClassesOf(PathA) = {}
  /\ OnBothSides(PathB)
  /\ ClassesOf(PathB) = {"conflicts"}

\* the previous pass was a completed non-dry-run pass
PrevReal == PrevCompleted /\ ~prev.opts.dryRun

\* the previous pass planned a transfer of p and did not make it: the
\* transfer failed, or its loop was skipped because of the direction
Untransferred(p) ==
  \/ /\ InSeq(prev.comparison.toUpload, p)
     /\ \/ prev.opts.direction = "down"
        \/ [action |-> "upload", file |-> p] \in Elems(prev.results.errors)
  \/ /\ InSeq(prev.comparison.toDownload, p)
     /\ \/ prev.opts.direction = "up"
        \/ [action |-> "download", file |-> p] \in Elems(prev.results.errors)

\* C24: with delete-orphans set, a pass never deletes, on either side, a file
\* whose transfer the pass before it failed to make or skipped because of its
\* direction.
C24_UntransferredNeverDeleted ==
  (PrevReal /\ opts.deleteOrphans) =>
    \A p \in Paths :
      Untransferred(p) =>
        /\ <<"unlink", p>> \notin ops
        /\ <<"deleteFile", p>> \notin ops

\* C25: a new remote-only file that a pass with direction up left alone, or
\* a new local-only file that a pass with direction down left alone, is
\* classified toDownload (toUpload) by a following pass with direction both.
C25_SkippedStaysPending ==
  (Compared /\ opts.direction = "both" /\ PrevReal) =>
    \A p \in Paths :
      /\ (/\ prev.opts.direction = "up"
          /\ InSeq(prev.comparison.toDownload, p)
          /\ local[p] = Absent) => InSeq(comparison.toDownload, p)
      /\ (/\ prev.opts.direction = "down"
          /\ InSeq(prev.comparison.toUpload, p)
          /\ remote[p] = NoRemote) => InSeq(comparison.toUpload, p)

PrevConflicts ==
  { prev.results.conflicts[i].path : i \in 1..Len(prev.results.conflicts) }

\* C29: a conflict that a non-dry-run pass resolved without error is not
\* classified conflict by the next pass, when only the transfer of the
\* resolution has changed the two sides.
C29_ConflictStaysResolved ==
  (Compared /\ PrevReal) =>
    \A p \in PrevConflicts : ~InSeq(comparison.conflicts, p)

C29_Witness ==
  /\ Compared
  /\ PrevReal
  /\ ticks = 1
  /\ prev.results.conflicts =
       << [path |-> PathA, resolution |-> "upload-local (newer)"] >>
  /\ OnBothSides(PathA)
  /\ state.files[PathA] = local[PathA]
  /\ ClassesOf(PathA) = {"inSync"}

RECURSIVE Sum(_)
Sum(s) == IF s = <<>> THEN 0 ELSE s[1] + Sum(Tail(s))

RateLimited(status) == status \in {403, 429}

\* what holds at every point of an execution of withRetry
RetryBounded ==
  /\ retry.calls <= 4
  /\ retry.waits = SubSeq(<<1000, 2000, 4000>>, 1, Len(retry.waits))
  /\ now = NowInit + Sum(retry.waits)
  /\ retry.pc = "call" => Len(retry.waits) = retry.calls
  /\ retry.pc # "call" => Len(retry.waits) = retry.calls - 1
  /\ \A i \in 1..(Len(retry.errors) - 1) : RateLimited(retry.errors[i])
  /\ retry.pc \in {"call", "sleep"} =>
        /\ Len(retry.errors) = Len(retry.waits) + (IF retry.pc = "sleep" THEN 1 ELSE 0)
        /\ \A i \in 1..Len(retry.errors) : RateLimited(retry.errors[i])
  /\ retry.pc = "returned" => Len(retry.errors) = retry.calls - 1
  /\ retry.pc = "threw" =>
        /\ Len(retry.errors) = retry.calls
        /\ retry.thrown = retry.errors[Len(retry.errors)]
        /\ RateLimited(retry.thrown) => retry.calls = 4
        /\ ~RateLimited(retry.thrown) =>
              \A i \in 1..Len(retry.errors) :
                 ~RateLimited(retry.errors[i]) => i = Len(retry.errors)

\* C21: withRetry retries only after a failure of status 403 or 429, waits
\* 1000, 2000 and 4000 ms before attempts 2, 3 and 4, invokes the call at most
\* 4 times, rethrows the last error when the 4th attempt is rate-limited too,
\* rethrows any other failure at once without a wait, and always terminates.
C21_BoundedRetry ==
  /\ []RetryBounded
  /\ <>(retry.pc \in {"returned", "threw"})

C21_Witness ==
  /\ retry.pc = "threw"
  /\ retry.errors = <<403, 429, 403, 429>>
  /\ retry.thrown = 429
  /\ retry.waits = <<1000, 2000, 4000>>
  /\ retry.calls = 4

\* C23: a call of status() loads the state, scans and compares, and changes
\* neither the local tree, nor the remote store, nor the state file, nor
\* issues any mutating call; when the local path does not exist it gives an
\* error result and the path still does not exist.
C23_StatusReadOnly ==
  [][ report' # report =>
        /\ UNCHANGED world
        /\ ops' = ops
        /\ io' = io
        /\ ~localRoot => report'.kind = "error" /\ ~localRoot'
        /\ localRoot => report'.kind \in {"ok", "threw"} ]_vars

C23_Witness ==
  /\ report.kind = "error"
  /\ ~localRoot
  /\ remoteFs[PathA] # NoRemote
  /\ ops = {}

\* the folders that the names of parts lead to from the folder cur, each a
\* child of the one before
RECURSIVE Reach(_, _, _)
Reach(d, cur, parts) ==
  IF parts = <<>> THEN {cur}
  ELSE UNION { Reach(d, e.id, Tail(parts)) :
                 e \in { x \in d : x.folder /\ x.parent = cur
                                             /\ x.name = Head(parts) } }

DirParts(p) == [i \in 1..(Len(p) - 1) |-> <<p[i]>>]

FileCalls == { i \in 1..Len(log) : log[i].call \in {"uploadFile", "updateFile"} }

\* the folder that holds the entry a file call has written
PlacedIn(r) ==
  IF r.call = "uploadFile" THEN {r.folderId}
  ELSE { e.parent : e \in { x \in drive : x.id = r.id } }

\* C26: a folder never holds two files of one name after uploads of a path,
\* and the file that uploadFile updates is a child of the folder that the
\* path's directory names from the synced folder.
C26_UpdateInPlace ==
  /\ \A e1, e2 \in drive :
        e1.parent = e2.parent /\ e1.name = e2.name => e1 = e2
  /\ \A i \in FileCalls :
        log[i].call = "updateFile" =>
          PlacedIn(log[i]) \subseteq Reach(drive, target, DirParts(req.path))

FolderCalls == { i \in 1..Len(log) : log[i].mimeType = "folder" }

\* C27: when uploadFile of a path with a directory issues the create or the
\* update of the file, every folder of the directory exists below the synced
\* folder, each was looked up or created before that call and parent before
\* child, and the file lands in the innermost of them; after a failed folder
\* lookup or creation no create or update of the file is issued.
C27_FoldersBeforeFile ==
  LET parts == DirParts(req.path)
  IN parts # <<>> =>
       /\ \A k \in FileCalls :
             /\ Reach(drive, target, parts) # {}
             /\ PlacedIn(log[k]) \subseteq Reach(drive, target, parts)
             /\ \A j \in 1..Len(parts) :
                   \E i \in FolderCalls :
                      /\ i < k
                      /\ log[i].name = parts[j]
                      /\ log[i].ok
                      /\ \A h \in FolderCalls :
                            h < i => log[h].name \in { parts[g] : g \in 1..j }
       /\ (\E i \in FolderCalls : ~log[i].ok) => FileCalls = {}

\* the path of the entry e below the folder tgt, <<>> if it is not below it
RECURSIVE PathBelow(_, _, _)
PathBelow(d, tgt, e) ==
  IF e.parent = tgt THEN <<e.name>>
  ELSE LET up == { x \in d : x.id = e.parent }
       IN IF up = {} THEN <<>>
          ELSE LET base == PathBelow(d, tgt, CHOOSE x \in up : TRUE)
               IN IF base = <<>> THEN <<>> ELSE Append(base, e.name)

FilesBelow(d, tgt) ==
  { PathBelow(d, tgt, e) : e \in { x \in d : ~x.folder } } \ { <<>> }

\* C28: the scan of the synced folder returns every file below it, however
\* many children a folder has.
C28_ScanComplete ==
  listing.done => FilesBelow(drive, target) \subseteq listing.files

\* C33: a time difference of exactly 1000 ms counts as within tolerance in
\* both branches of compareFileSets: with a state record, a side whose time
\* is exactly 1000 ms past the recorded time is unchanged; without one, two
\* sides exactly 1000 ms apart are inSync.
C33_BoundaryAlike ==
  Compared =>
    \A p \in Paths :
      OnBothSides(p) =>
        LET l == local[p]
            r == GetTime(remote[p])
        IN IF state.files[p] # Absent
           THEN /\ l = state.files[p] + 1000 =>
                     ClassesOf(p) \cap {"toUpload", "conflicts"} = {}
                /\ r = state.files[p] + 1000 =>
                     ClassesOf(p) \cap {"toDownload", "conflicts"} = {}
           ELSE (l - r = 1000 \/ r - l = 1000) => ClassesOf(p) = {"inSync"}

\* C31: a file with the sidecar's name is in no scan result and in no
\* classification set, is never uploaded, and the sidecar is written by the
\* state save only, never by a download.
C31_SidecarApart ==
  /\ local[PathS] = Absent
  /\ remote[PathS] = NoRemote
  /\ ClassesOf(PathS) = {}
  /\ ops \cap { <<"uploadFile", PathS>>, <<"updateFile", PathS>>,
                 <<"writeFile", PathS>> } = {}

FolderRequests(lg) == { i \in 1..Len(lg) : lg[i].mimeType = "folder" }

\* ensureDrivePath of the call has returned: the listing of the file follows
Ensured(lg) == \E i \in 1..Len(lg) : lg[i].mimeType = ""

\* C34: once a call of a run has found or made the folders of a directory,
\* a later upload into the same directory issues no folder listing and no
\* createFolder.
C34_Memoized ==
  \A i, j \in 1..Len(req.calls) :
    (/\ i < j
     /\ DirParts(req.calls[i].path) # <<>>
     /\ DirParts(req.calls[i].path) = DirParts(req.calls[j].path)
     /\ Ensured(req.calls[i].log)) =>
       FolderRequests(req.calls[j].log) = {}

Loaded(i) == overlap.proc[i].pc # "start"

\* C32: two overlapping passes are not serialised.  Passes that load with no
\* save in between hold the same prior state, and after any save the
\* sidecar is exactly the snapshot of the pass that saved last, nothing of an
\* earlier snapshot being kept.
C32_LastSaveWins ==
  /\ \A i, j \in Procs :
        (Loaded(i) /\ Loaded(j) /\ overlap.proc[i].seen = overlap.proc[j].seen)
          => overlap.proc[i].state = overlap.proc[j].state
  /\ overlap.saves # <<>> =>
        stateFile = overlap.proc[overlap.saves[Len(overlap.saves)]].saved

\* both passes loaded the same state and made a remote file for the same
\* new local path, and the snapshot of the pass that saved first is gone
C32_Witness ==
  /\ \A i \in Procs : overlap.proc[i].pc = "done"
  /\ overlap.proc[1].seen = overlap.proc[2].seen
  /\ \A i \in Procs : PathA \in overlap.proc[i].created
  /\ Cardinality(Matching(overlap.files, PathA)) = 2
  /\ overlap.proc[1].saved # overlap.proc[2].saved
  /\ stateFile # overlap.proc[overlap.saves[1]].saved

====
